---- MODULE Spec2Model ----
(***************************************************************************)
(* Model of the workspace snapshot graph of lib/dal                        *)
(* (src/lib/dal/src/workspace_snapshot/graph.rs): a copy-on-write DAG kept *)
(* in a petgraph StableDiGraph, with a merkle tree hash on every node and  *)
(* vector clocks on every node and edge.                                   *)
(*                                                                         *)
(* A snapshot is a record                                                  *)
(*   nodes : node index -> node weight (NoNode for a vacant slot)          *)
(*   out   : node index -> sequence of outgoing edges, oldest first        *)
(*   bound : number of node slots ever allocated (petgraph's node_bound)   *)
(*   free  : the StableGraph free list of vacant node slots (head first)   *)
(*   root  : root_index                                                    *)
(* An edge is identified by its (source, target) pair: every edge of the   *)
(* snapshot is made through update_edge, which keeps at most one edge per  *)
(* pair.                                                                   *)
(***************************************************************************)
EXTENDS Integers, Sequences, FiniteSets, TLC

VARIABLES graph, other, change_set, nextId, last, calls

vars == <<graph, other, change_set, nextId, last, calls>>

(***************************************************************************)
(* Bounds of the model.                                                    *)
(***************************************************************************)
\* calls made on a snapshot after its initial state
MaxCalls == 2
\* number of change sets
NumChangeSets == 2
\* number of distinct content hashes handed to add_node / update_content
NumHashes == 2

ChangeSets == 1..NumChangeSets
Hashes == 1..NumHashes
EdgeWeightKinds == {"Uses"}

\* Option::None of entry_for and of the index maps
Absent == -1

(***************************************************************************)
(* Sequence helpers.                                                       *)
(***************************************************************************)
Reverse(s) == [i \in 1..Len(s) |-> s[Len(s) + 1 - i]]

SetMin(S) == CHOOSE x \in S : \A y \in S : x <= y

RECURSIVE SortedSeq(_)
SortedSeq(S) == IF S = {} THEN <<>>
                ELSE LET m == SetMin(S) IN <<m>> \o SortedSeq(S \ {m})

RECURSIVE SortedSeqDesc(_)
SortedSeqDesc(S) == IF S = {} THEN <<>>
                    ELSE LET m == CHOOSE x \in S : \A y \in S : y <= x
                         IN <<m>> \o SortedSeqDesc(S \ {m})

(***************************************************************************)
(* Vector clocks: change set -> counter, Absent where there is no entry.   *)
(***************************************************************************)
VectorClockEmpty == [c \in ChangeSets |-> Absent]

VectorClockNew(cs) == [c \in ChangeSets |-> IF c = cs THEN 0 ELSE Absent]

VectorClockInc(vc, cs) ==
    [c \in ChangeSets |->
        IF c # cs THEN vc[c] ELSE IF vc[c] = Absent THEN 1 ELSE vc[c] + 1]

EntryFor(vc, cs) == vc[cs]

(***************************************************************************)
(* Edge weights (edge_weight.rs).                                          *)
(***************************************************************************)
EdgeWeightNew(cs, kind) ==
    [kind |-> kind,
     vector_clock_seen |-> VectorClockNew(cs),
     vector_clock_write |-> VectorClockNew(cs)]

EdgeIncrementVectorClocks(w, cs) ==
    [w EXCEPT !.vector_clock_seen = VectorClockInc(w.vector_clock_seen, cs),
              !.vector_clock_write = VectorClockInc(w.vector_clock_write, cs)]

EdgeNewWithIncrementedVectorClocks(w, cs) == EdgeIncrementVectorClocks(w, cs)

(***************************************************************************)
(* Node weights.                                                           *)
(***************************************************************************)
NoNode ==
    [kind |-> "None", addr |-> "None", id |-> Absent, lineage_id |-> Absent,
     content_hash |-> Absent, merkle_tree_hash |-> <<>>,
     vector_clock_write |-> VectorClockEmpty,
     vector_clock_first_seen |-> VectorClockEmpty,
     vector_clock_recently_seen |-> VectorClockEmpty]

\* the content hash ContentAddress::Root carries
RootHash == 0

NewContent(cs, id, addr, hash) ==
    [kind |-> "Content", addr |-> addr, id |-> id, lineage_id |-> id,
     content_hash |-> hash, merkle_tree_hash |-> <<>>,
     vector_clock_write |-> VectorClockNew(cs),
     vector_clock_first_seen |-> VectorClockNew(cs),
     vector_clock_recently_seen |-> VectorClockNew(cs)]

NodeNewWithIncrementedVectorClock(w, cs) ==
    [w EXCEPT !.vector_clock_write = VectorClockInc(w.vector_clock_write, cs),
              !.vector_clock_first_seen =
                  IF w.vector_clock_first_seen[cs] = Absent
                  THEN [c \in ChangeSets |->
                           IF c = cs THEN 0 ELSE w.vector_clock_first_seen[c]]
                  ELSE w.vector_clock_first_seen]

NodeNewContentHash(w, hash) == [w EXCEPT !.content_hash = hash]

(***************************************************************************)
(* petgraph's StableDiGraph.                                               *)
(***************************************************************************)
EmptyGraph == [nodes |-> <<>>, out |-> <<>>, bound |-> 0, free |-> <<>>, root |-> 0]

NodeIndices(g) == {i \in 0..(g.bound - 1) : g.nodes[i].kind # "None"}

ContainsNode(g, i) == i \in NodeIndices(g)

\* StableGraph::add_node: the head of the free list, else a new slot
GraphAddNode(g, w) ==
    IF g.free # <<>>
    THEN LET i == Head(g.free)
         IN [g |-> [g EXCEPT !.nodes[i] = w, !.free = Tail(g.free)], idx |-> i]
    ELSE LET i == g.bound
         IN [g |-> [g EXCEPT
                      !.nodes = [j \in 0..i |-> IF j = i THEN w ELSE g.nodes[j]],
                      !.out = [j \in 0..i |-> IF j = i THEN <<>> ELSE g.out[j]],
                      !.bound = i + 1],
             idx |-> i]

\* find_edge
HasEdge(g, a, b) == \E k \in 1..Len(g.out[a]) : g.out[a][k].to = b

\* update_edge: the weight of the edge a -> b is replaced where it stands,
\* a missing edge is added as the newest edge of a
GraphUpdateEdge(g, a, b, w) ==
    LET e == [to |-> b, w |-> w]
    IN IF HasEdge(g, a, b)
       THEN [g EXCEPT !.out[a] =
                [k \in 1..Len(g.out[a]) |->
                    IF g.out[a][k].to = b THEN e ELSE g.out[a][k]]]
       ELSE [g EXCEPT !.out[a] = Append(g.out[a], e)]

\* remove_edge of the edge a -> b
GraphRemoveEdge(g, a, b) ==
    [g EXCEPT !.out[a] = SelectSeq(g.out[a], LAMBDA e : e.to # b)]

\* edges_directed(a, Outgoing): newest edge first
\* the edges but the oldest, newest edge first
EdgesDirectedButOldest(g, a) ==
    IF g.out[a] = <<>> THEN <<>> ELSE Reverse(Tail(g.out[a]))
EdgesDirected(g, a) == Reverse(g.out[a])

\* neighbors_directed(a, Outgoing) as a set
Neighbors(g, a) == {g.out[a][k].to : k \in 1..Len(g.out[a])}

EdgeWeightOf(g, a, b) ==
    LET k == CHOOSE k \in 1..Len(g.out[a]) : g.out[a][k].to = b
    IN g.out[a][k].w

RECURSIVE ReachFrom(_, _, _)
ReachFrom(g, frontier, seen) ==
    IF frontier = {} THEN seen
    ELSE LET nxt == (UNION {Neighbors(g, n) : n \in frontier}) \ seen
         IN ReachFrom(g, nxt, seen \cup nxt)

\* the nodes a path (of any length, zero included) leads to from a
Reach(g, a) == ReachFrom(g, {a}, {a})

\* algo::has_path_connecting
HasPathConnecting(g, a, b) == b \in Reach(g, a)

\* algo::toposort(&graph, None).is_ok(): no directed cycle, self loops
\* included, anywhere in the stored graph
IsAcyclicDirected(g) ==
    \A n \in NodeIndices(g) : \A m \in Neighbors(g, n) : n \notin Reach(g, m)

HasPathToRoot(g, n) == HasPathConnecting(g, g.root, n)

\* is_on_path_between that takes the two ends only, not the nodes between
IsEndOfPath(g, start, end, n) == n = start \/ n = end

IsOnPathBetween(g, start, end, n) ==
    HasPathConnecting(g, start, n) /\ HasPathConnecting(g, n, end)

(***************************************************************************)
(* DfsPostOrder: petgraph pushes the undiscovered successors of a node in  *)
(* neighbors() order (newest edge first) and takes the top of the stack,   *)
(* so the target of the oldest edge is walked first.                       *)
(***************************************************************************)
RECURSIVE DfsVisit(_, _, _)
RECURSIVE DfsKids(_, _, _, _)
DfsVisit(g, n, st) ==
    IF n \in st.seen THEN st
    ELSE LET st1 == [seen |-> st.seen \cup {n}, order |-> st.order]
             st2 == DfsKids(g, g.out[n], 1, st1)
         IN [seen |-> st2.seen, order |-> Append(st2.order, n)]
DfsKids(g, edges, k, st) ==
    IF k > Len(edges) THEN st
    ELSE DfsKids(g, edges, k + 1, DfsVisit(g, edges[k].to, st))

DfsPostOrder(g, start) == DfsVisit(g, start, [seen |-> {}, order |-> <<>>]).order

(***************************************************************************)
(* The content digest: collision free, a digest stands for the sequence of *)
(* strings fed to the hasher.                                              *)
(***************************************************************************)
HasherFinalize(parts) == [digest |-> parts]

UpdateMerkleTreeHash(g, n) ==
    LET ordered_neighbors == SortedSeq(Neighbors(g, n))
        fed == <<g.nodes[n].content_hash>> \o
               [k \in 1..Len(ordered_neighbors) |->
                    g.nodes[ordered_neighbors[k]].merkle_tree_hash]
    IN [g EXCEPT !.nodes[n].merkle_tree_hash = HasherFinalize(fed)]

AddNode(g, w) ==
    LET r == GraphAddNode(g, w)
    IN [g |-> UpdateMerkleTreeHash(r.g, r.idx), idx |-> r.idx]

CopyNodeIndex(g, cs, n) ==
    GraphAddNode(g, NodeNewWithIncrementedVectorClock(g.nodes[n], cs))

\* cleanup that also retains the nodes some path leads from to a node under
\* root_index
CleanupKeepsParents(g) ==
    LET keep == {n \in NodeIndices(g) : Reach(g, n) \cap Reach(g, g.root) # {}}
        gone == NodeIndices(g) \ keep
    IN [g EXCEPT
          !.nodes = [i \in DOMAIN g.nodes |->
                        IF i \in gone THEN NoNode ELSE g.nodes[i]],
          !.out = [i \in DOMAIN g.out |->
                      IF i \in gone THEN <<>>
                      ELSE SelectSeq(g.out[i], LAMBDA e : e.to \notin gone)],
          !.free = SortedSeqDesc(gone) \o g.free]

\* retain_nodes: the slots are walked in ascending order and every node with
\* no path from root_index is removed, with its edges; the slot removed last
\* is the head of the free list
Cleanup(g) ==
    LET keep == Reach(g, g.root)
        gone == NodeIndices(g) \ keep
    IN [g EXCEPT
          !.nodes = [i \in DOMAIN g.nodes |->
                        IF i \in gone THEN NoNode ELSE g.nodes[i]],
          !.out = [i \in DOMAIN g.out |->
                      IF i \in gone THEN <<>>
                      ELSE SelectSeq(g.out[i], LAMBDA e : e.to \notin gone)],
          !.free = SortedSeqDesc(gone) \o g.free]

\* the first node, in ascending index order, that root reaches and carries id
GetNodeIndexById(g, id) ==
    LET found == {i \in NodeIndices(g) : HasPathToRoot(g, i) /\ g.nodes[i].id = id}
    IN IF found = {} THEN Absent ELSE SetMin(found)

MapGet(map, k) == IF k \in DOMAIN map THEN map[k] ELSE Absent

\* the re-creation of the edges with the old weights, clocks as they were
RECURSIVE CreateEdgesClonesWeights(_, _, _, _, _, _)
CreateEdgesClonesWeights(g, source, edges_to_create, k, map, cs) ==
    IF k > Len(edges_to_create) THEN g
    ELSE LET e == edges_to_create[k]
             dest == IF MapGet(map, e.to) # Absent THEN MapGet(map, e.to) ELSE e.to
         IN CreateEdgesClonesWeights(
                GraphUpdateEdge(g, source, dest, e.w),
                source, edges_to_create, k + 1, map, cs)

RECURSIVE CreateEdges(_, _, _, _, _, _)
CreateEdges(g, source, edges_to_create, k, map, cs) ==
    IF k > Len(edges_to_create) THEN g
    ELSE LET e == edges_to_create[k]
             dest == IF MapGet(map, e.to) # Absent THEN MapGet(map, e.to) ELSE e.to
         IN CreateEdges(
                GraphUpdateEdge(g, source, dest,
                                EdgeNewWithIncrementedVectorClocks(e.w, cs)),
                source, edges_to_create, k + 1, map, cs)

\* one turn of the loop of replace_references, for the node old_node_index
ReplaceStep(st, cs, original, old) ==
    IF ~IsOnPathBetween(st.g, st.g.root, original, old) THEN st
    ELSE LET cp == IF st.map[old] # Absent
                   THEN [g |-> st.g, idx |-> st.map[old]]
                   ELSE CopyNodeIndex(st.g, cs, old)
             map1 == [st.map EXCEPT ![old] = cp.idx]
             g2 == CreateEdges(cp.g, cp.idx, EdgesDirected(cp.g, old), 1, map1, cs)
             g3 == UpdateMerkleTreeHash(g2, cp.idx)
             g4 == IF MapGet(map1, g3.root) # Absent
                   THEN [g3 EXCEPT !.root = MapGet(map1, g3.root)]
                   ELSE g3
         IN [g |-> g4, map |-> map1]

RECURSIVE ReplaceLoop(_, _, _, _, _)
ReplaceLoop(st, cs, original, order, k) ==
    IF k > Len(order) THEN st
    ELSE ReplaceLoop(ReplaceStep(st, cs, original, order[k]), cs, original, order, k + 1)

ReplaceReferences(g, cs, original, new) ==
    LET map0 == [i \in 0..(g.bound - 1) |-> IF i = original THEN new ELSE Absent]
        order == DfsPostOrder(g, g.root)
    IN ReplaceLoop([g |-> g, map |-> map0], cs, original, order, 1)

\* the entries of old_to_new_node_indices, as pairs <<old, new>>
Entries(map) == {<<o, map[o]>> : o \in {i \in DOMAIN map : map[i] # Absent}}

\* add_edge that returns CreateGraphCycle without taking the temporary edge
\* out again
AddEdgeKeepsTempEdge(g, cs, from, edge_weight, to) ==
    LET temp == GraphUpdateEdge(g, from, to, edge_weight)
        would_create_a_cycle == ~IsAcyclicDirected(temp)
        g1 == GraphRemoveEdge(temp, from, to)
    IN IF would_create_a_cycle
       THEN [g |-> temp, res |-> "CreateGraphCycle", ret |-> Absent, copies |-> {}]
       ELSE LET w == EdgeIncrementVectorClocks(edge_weight, cs)
                cp == CopyNodeIndex(g1, cs, from)
                g2 == GraphUpdateEdge(cp.g, cp.idx, to, w)
                g3 == UpdateMerkleTreeHash(g2, cp.idx)
                st == ReplaceReferences(g3, cs, from, cp.idx)
            IN [g |-> st.g, res |-> "Ok", ret |-> cp.idx, copies |-> Entries(st.map)]

\* add_edge that copies the "from" node before it looks for a cycle
AddEdgeCopiesBeforeCheck(g, cs, from, edge_weight, to) ==
    LET cp == CopyNodeIndex(g, cs, from)
        temp == GraphUpdateEdge(cp.g, from, to, edge_weight)
        would_create_a_cycle == ~IsAcyclicDirected(temp)
        g1 == GraphRemoveEdge(temp, from, to)
    IN IF would_create_a_cycle
       THEN [g |-> g1, res |-> "CreateGraphCycle", ret |-> Absent, copies |-> {}]
       ELSE LET w == EdgeIncrementVectorClocks(edge_weight, cs)
                g2 == GraphUpdateEdge(g1, cp.idx, to, w)
                g3 == UpdateMerkleTreeHash(g2, cp.idx)
                st == ReplaceReferences(g3, cs, from, cp.idx)
            IN [g |-> st.g, res |-> "Ok", ret |-> cp.idx, copies |-> Entries(st.map)]

AddEdge(g, cs, from, edge_weight, to) ==
    LET temp == GraphUpdateEdge(g, from, to, edge_weight)
        would_create_a_cycle == ~IsAcyclicDirected(temp)
        g1 == GraphRemoveEdge(temp, from, to)
    IN IF would_create_a_cycle
       THEN [g |-> g1, res |-> "CreateGraphCycle", ret |-> Absent, copies |-> {}]
       ELSE LET w == EdgeIncrementVectorClocks(edge_weight, cs)
                cp == CopyNodeIndex(g1, cs, from)
                g2 == GraphUpdateEdge(cp.g, cp.idx, to, w)
                g3 == UpdateMerkleTreeHash(g2, cp.idx)
                st == ReplaceReferences(g3, cs, from, cp.idx)
            IN [g |-> st.g, res |-> "Ok", ret |-> cp.idx, copies |-> Entries(st.map)]

UpdateContent(g, cs, id, new_content_hash) ==
    LET original == GetNodeIndexById(g, id)
    IN IF original = Absent
       THEN [g |-> g, res |-> "NodeWithIdNotFound", ret |-> Absent, copies |-> {}]
       ELSE LET cp == CopyNodeIndex(g, cs, original)
                g1 == [cp.g EXCEPT !.nodes[cp.idx] =
                           NodeNewContentHash(cp.g.nodes[cp.idx], new_content_hash)]
                st == ReplaceReferences(g1, cs, original, cp.idx)
            IN [g |-> st.g, res |-> "Ok", ret |-> cp.idx, copies |-> Entries(st.map)]

RECURSIVE ImportEdges(_, _, _, _, _)
ImportEdges(g, source, edges, k, map) ==
    IF k > Len(edges) THEN g
    ELSE ImportEdges(GraphUpdateEdge(g, source, map[edges[k].to], edges[k].w),
                     source, edges, k + 1, map)

RECURSIVE ImportLoop(_, _, _, _)
ImportLoop(st, oth, order, k) ==
    IF k > Len(order) THEN st
    ELSE LET n == order[k]
             added == AddNode(st.g, oth.nodes[n])
             map1 == [st.map EXCEPT ![n] = added.idx]
             g1 == ImportEdges(added.g, added.idx, EdgesDirected(oth, n), 1, map1)
         IN ImportLoop([g |-> g1, map |-> map1], oth, order, k + 1)

\* an import that makes the imported node the root
ImportSubgraphMovesRoot(g, oth, root_index) ==
    LET map0 == [i \in 0..(oth.bound - 1) |-> Absent]
        st == ImportLoop([g |-> g, map |-> map0], oth,
                         DfsPostOrder(oth, root_index), 1)
    IN [g |-> [st.g EXCEPT !.root = st.map[root_index]], res |-> "Ok",
        ret |-> st.map[root_index]]
ImportSubgraph(g, oth, root_index) ==
    LET map0 == [i \in 0..(oth.bound - 1) |-> Absent]
        st == ImportLoop([g |-> g, map |-> map0], oth,
                         DfsPostOrder(oth, root_index), 1)
    IN [g |-> st.g, res |-> "Ok", ret |-> st.map[root_index]]

New(cs, id) == AddNode(EmptyGraph, NewContent(cs, id, "Root", RootHash)).g

(***************************************************************************)
(* The second snapshot, the one import_subgraph copies from: root -> X ->  *)
(* Y, built in its own change set with its own ids by the operations       *)
(* above and cleaned up.                                                   *)
(***************************************************************************)
OtherChangeSet == 1
OtherRootId == 10

BuiltOther ==
    LET cs == OtherChangeSet
        g0 == New(cs, OtherRootId)
        x == AddNode(g0, NewContent(cs, OtherRootId + 1, "Component", 1))
        y == AddNode(x.g, NewContent(cs, OtherRootId + 2, "Component", 2))
        g1 == AddEdge(y.g, cs, y.g.root, EdgeWeightNew(cs, "Uses"), x.idx).g
        g2 == AddEdge(g1, cs, GetNodeIndexById(g1, OtherRootId + 1),
                      EdgeWeightNew(cs, "Uses"), y.idx).g
    IN Cleanup(g2)

(***************************************************************************)
(* Initial snapshots, each built by the operations above the way the tests *)
(* of graph.rs build theirs: the snapshot new() returns; root -> A before  *)
(* any cleanup; root -> A -> B with root -> B, cleaned up and not.         *)
(***************************************************************************)
BareSnapshot == [g |-> New(1, 0), nextId |-> 1]

\* root -> A -> B with root -> B, every stale copy still stored
BuiltTriangle ==
    LET cs == 1
        g0 == New(cs, 0)
        a == AddNode(g0, NewContent(cs, 1, "Component", 1))
        b == AddNode(a.g, NewContent(cs, 2, "Component", 2))
        g1 == AddEdge(b.g, cs, b.g.root, EdgeWeightNew(cs, "Uses"), a.idx).g
        g2 == AddEdge(g1, cs, g1.root, EdgeWeightNew(cs, "Uses"), b.idx).g
    IN AddEdge(g2, cs, GetNodeIndexById(g2, 1), EdgeWeightNew(cs, "Uses"),
               GetNodeIndexById(g2, 2)).g

TriangleSnapshot == [g |-> Cleanup(BuiltTriangle), nextId |-> 3]

StaleTriangleSnapshot == [g |-> BuiltTriangle, nextId |-> 3]

\* root -> A, with the stale first root still stored
EdgeSnapshot ==
    LET cs == 1
        g0 == New(cs, 0)
        a == AddNode(g0, NewContent(cs, 1, "Component", 1))
        g1 == AddEdge(a.g, cs, a.g.root, EdgeWeightNew(cs, "Uses"), a.idx).g
    IN [g |-> g1, nextId |-> 2]

InitialSnapshots ==
    {BareSnapshot, EdgeSnapshot, TriangleSnapshot, StaleTriangleSnapshot}

(***************************************************************************)
(* The state: the snapshot under mutation, the snapshot it imports from,   *)
(* the change set the caller currently works in, the next id generate_ulid *)
(* hands out, the last call with its result, and the number of calls made. *)
(***************************************************************************)
Call(op, cs, a, b, res, ret, copies) ==
    [op |-> op, cs |-> cs, a |-> a, b |-> b, res |-> res, ret |-> ret,
     copies |-> copies]

Init ==
    /\ change_set = 1
    /\ \E s \in InitialSnapshots : graph = s.g /\ nextId = s.nextId
    /\ last = Call("new", change_set, Absent, Absent, "Ok", Absent, {})
    /\ other = BuiltOther
    /\ calls = 0

\* ChangeSet::new(): the caller goes on in a later change set
new_change_set ==
    /\ calls < MaxCalls
    /\ change_set < NumChangeSets
    /\ change_set' = change_set + 1
    /\ last' = Call("new_change_set", change_set + 1, Absent, Absent, "Ok", Absent, {})
    /\ calls' = calls + 1
    /\ UNCHANGED <<graph, other, nextId>>

add_node ==
    /\ calls < MaxCalls
    /\ \E h \in Hashes :
          LET r == AddNode(graph, NewContent(change_set, nextId, "Component", h))
          IN /\ graph' = r.g
             /\ last' = Call("add_node", change_set, nextId, h, "Ok", r.idx, {})
    /\ nextId' = nextId + 1
    /\ calls' = calls + 1
    /\ UNCHANGED <<other, change_set>>

add_edge ==
    /\ calls < MaxCalls
    /\ \E kind \in EdgeWeightKinds,
          from \in NodeIndices(graph), to \in NodeIndices(graph) :
          LET r == AddEdge(graph, change_set, from, EdgeWeightNew(change_set, kind), to)
          IN /\ graph' = r.g
             /\ last' = Call("add_edge", change_set, from, to, r.res, r.ret, r.copies)
    /\ calls' = calls + 1
    /\ UNCHANGED <<other, change_set, nextId>>

update_content ==
    /\ calls < MaxCalls
    /\ \E id \in 0..(nextId - 1), h \in Hashes :
          LET r == UpdateContent(graph, change_set, id, h)
          IN /\ graph' = r.g
             /\ last' = Call("update_content", change_set, id, h, r.res, r.ret, r.copies)
    /\ calls' = calls + 1
    /\ UNCHANGED <<other, change_set, nextId>>

cleanup ==
    /\ calls < MaxCalls
    /\ graph' = Cleanup(graph)
    /\ last' = Call("cleanup", change_set, Absent, Absent, "Ok", Absent, {})
    /\ calls' = calls + 1
    /\ UNCHANGED <<other, change_set, nextId>>

import_subgraph ==
    /\ calls < MaxCalls
    /\ \E r \in NodeIndices(other) :
          LET i == ImportSubgraph(graph, other, r)
          IN /\ graph' = i.g
             /\ last' = Call("import_subgraph", change_set, r, Absent, i.res, i.ret, {})
    /\ calls' = calls + 1
    /\ UNCHANGED <<other, change_set, nextId>>

Mutate == new_change_set \/ add_node \/ add_edge \/ update_content \/ cleanup

NextCore == Mutate

SpecCore == Init /\ [][NextCore]_vars

Next == Mutate \/ import_subgraph

Spec == Init /\ [][Next]_vars

(***************************************************************************)
(* Two snapshots built side by side from the same nodes and the same       *)
(* edges, each in an order of its own: graph is the left one, other the    *)
(* right one.  Node id i has content hash i on both sides.  The caller     *)
(* names a node by the index add_node returned until the node hangs under  *)
(* the root, and by get_node_index_by_id from then on.                     *)
(***************************************************************************)
MaxPairSlots == 5

PairIds == 1..NumHashes

IndexOfId(g, id) ==
    LET stored == {i \in NodeIndices(g) : g.nodes[i].id = id}
    IN IF GetNodeIndexById(g, id) # Absent THEN GetNodeIndexById(g, id)
       ELSE IF stored = {} THEN Absent ELSE SetMin(stored)

InitPair ==
    /\ change_set = 1
    /\ graph = New(1, 0)
    /\ other = New(1, 0)
    /\ nextId = 1
    /\ last = Call("new", 1, Absent, Absent, "Ok", Absent, {})
    /\ calls = 0

left_add_node ==
    /\ graph.bound < MaxPairSlots
    /\ \E id \in PairIds :
          /\ IndexOfId(graph, id) = Absent
          /\ graph' = AddNode(graph, NewContent(change_set, id, "Component", id)).g
          /\ last' = Call("left_add_node", change_set, id, id, "Ok", Absent, {})
    /\ UNCHANGED <<other, change_set, nextId, calls>>

right_add_node ==
    /\ other.bound < MaxPairSlots
    /\ \E id \in PairIds :
          /\ IndexOfId(other, id) = Absent
          /\ other' = AddNode(other, NewContent(change_set, id, "Component", id)).g
          /\ last' = Call("right_add_node", change_set, id, id, "Ok", Absent, {})
    /\ UNCHANGED <<graph, change_set, nextId, calls>>

left_add_edge ==
    /\ graph.bound < MaxPairSlots
    /\ \E kind \in EdgeWeightKinds, from \in {0} \cup PairIds, to \in PairIds :
          /\ GetNodeIndexById(graph, from) # Absent
          /\ IndexOfId(graph, to) # Absent
          /\ LET r == AddEdge(graph, change_set, GetNodeIndexById(graph, from),
                              EdgeWeightNew(change_set, kind), IndexOfId(graph, to))
             IN /\ graph' = r.g
                /\ last' = Call("left_add_edge", change_set, from, to, r.res, Absent, {})
    /\ UNCHANGED <<other, change_set, nextId, calls>>

right_add_edge ==
    /\ other.bound < MaxPairSlots
    /\ \E kind \in EdgeWeightKinds, from \in {0} \cup PairIds, to \in PairIds :
          /\ GetNodeIndexById(other, from) # Absent
          /\ IndexOfId(other, to) # Absent
          /\ LET r == AddEdge(other, change_set, GetNodeIndexById(other, from),
                              EdgeWeightNew(change_set, kind), IndexOfId(other, to))
             IN /\ other' = r.g
                /\ last' = Call("right_add_edge", change_set, from, to, r.res, Absent, {})
    /\ UNCHANGED <<graph, change_set, nextId, calls>>

NextPair == left_add_node \/ right_add_node \/ left_add_edge \/ right_add_edge

SpecPair == InitPair /\ [][NextPair]_vars

(***************************************************************************)
(* Rebase: detect_conflicts_and_updates.  The clocks are compared as the   *)
(* design document defines them; an edge's first_seen clock is the seen    *)
(* clock of edge_weight.rs.                                                *)
(***************************************************************************)
\* is_newer_than: no entry is behind the other clock's, one is ahead of it
IsNewerThan(vc, oth) ==
    /\ \A c \in ChangeSets : vc[c] >= oth[c]
    /\ \E c \in ChangeSets : vc[c] > oth[c]

\* has_entries_newer_than
HasEntriesNewerThan(vc, threshold) == \E c \in ChangeSets : vc[c] > threshold

\* merge: the pointwise maximum
VectorClockMerge(vc, oth) ==
    [c \in ChangeSets |-> IF vc[c] >= oth[c] THEN vc[c] ELSE oth[c]]

\* EdgeWeight::vector_clock_first_seen
EdgeVectorClockFirstSeen(w) == w.vector_clock_seen

\* EdgeWeightKind::Ordering, the kind of the edge to a container's ordering
OrderingKind == "Ordering"

RebaseEdgeKinds == EdgeWeightKinds \cup {OrderingKind}

\* the content hash of an ordering node: a digest of its order
RECURSIVE OrderHash(_)
OrderHash(order) ==
    IF order = <<>> THEN 100 ELSE 16 * OrderHash(Tail(order)) + Head(order)

\* NodeWeight::new_ordering: the ordering of a container, a sequence of ids
NewOrdering(cs, id, order) ==
    [kind |-> "Ordering", addr |-> "None", id |-> id, lineage_id |-> id,
     content_hash |-> OrderHash(order), merkle_tree_hash |-> <<>>,
     vector_clock_write |-> VectorClockNew(cs),
     vector_clock_first_seen |-> VectorClockNew(cs),
     vector_clock_recently_seen |-> VectorClockNew(cs),
     order |-> order]

\* the stored content nodes of a lineage, stale copies included, in
\* ascending index order
GetNodeIndexByLineage(g, lineage_id) ==
    SortedSeq({i \in NodeIndices(g) :
                  g.nodes[i].kind = "Content" /\ g.nodes[i].lineage_id = lineage_id})

\* the targets of the Ordering edges of a node that are ordering nodes,
\* newest edge first
OrderingNodeIndexesForNodeIndex(g, n) ==
    LET edges == SelectSeq(EdgesDirected(g, n),
                     LAMBDA e : e.w.kind = OrderingKind
                                /\ g.nodes[e.to].kind = "Ordering")
    IN [k \in 1..Len(edges) |-> edges[k].to]

\* the weight an update carries when it is not a NewEdge
NoEdgeWeight ==
    [kind |-> "None", vector_clock_seen |-> VectorClockEmpty,
     vector_clock_write |-> VectorClockEmpty]

ConflictNodeContent(to_rebase, onto) ==
    [type |-> "NodeContent", to_rebase |-> to_rebase, onto |-> onto]

ConflictModifyRemovedItem(item) ==
    [type |-> "ModifyRemovedItem", to_rebase |-> item, onto |-> Absent]

ConflictRemoveModifiedItem(container, removed_item) ==
    [type |-> "RemoveModifiedItem", to_rebase |-> container, onto |-> removed_item]

UpdateNewEdge(source, destination, edge_weight) ==
    [type |-> "NewEdge", source |-> source, destination |-> destination,
     edge_weight |-> edge_weight]

\* RemoveEdge(edge_index): an edge is known by its end points, update_edge
\* keeps one edge per pair of nodes
UpdateRemoveEdge(source, destination) ==
    [type |-> "RemoveEdge", source |-> source, destination |-> destination,
     edge_weight |-> NoEdgeWeight]

\* ReplaceSubgraph{new, old}: destination is new (an index of onto), source
\* is old (an index of to_rebase)
UpdateReplaceSubgraph(new, old) ==
    [type |-> "ReplaceSubgraph", source |-> old, destination |-> new,
     edge_weight |-> NoEdgeWeight]

\* the orders a HashMap or a HashSet may hand its entries out in: the order
\* depends on the hasher's random state, the model draws one of two
HashIterationOrders == {"Ascending", "Descending"}

\* a key that tells the edges of a container apart by their kind alone
UniqueEdgeInfoByKind(g, e) ==
    [kind |-> e.w.kind, target_lineage |-> 0 * g.nodes[e.to].lineage_id]

\* UniqueEdgeInfo{kind, target_lineage} of an edge record of g
UniqueEdgeInfo(g, e) ==
    [kind |-> e.w.kind, target_lineage |-> g.nodes[e.to].lineage_id]

UniqueEdgeInfoCode(key) ==
    2 * key.target_lineage + (IF key.kind = OrderingKind THEN 1 ELSE 0)

\* the entries of a hash container keyed by UniqueEdgeInfo, as iterated
HashIterate(keys, hash_order) ==
    LET codes == {UniqueEdgeInfoCode(k) : k \in keys}
        seq == IF hash_order = "Ascending" THEN SortedSeq(codes)
               ELSE SortedSeqDesc(codes)
    IN [i \in 1..Len(seq) |-> CHOOSE k \in keys : UniqueEdgeInfoCode(k) = seq[i]]

\* the entries of a hash set of ids, as iterated
HashIterateIds(ids, hash_order) ==
    IF hash_order = "Ascending" THEN SortedSeq(ids) ELSE SortedSeqDesc(ids)

\* the keys of the HashMap<UniqueEdgeInfo, EdgeInfo> of a container
EdgeInfoKeys(g, container) ==
    {UniqueEdgeInfo(g, g.out[container][k]) : k \in 1..Len(g.out[container])}

\* the EdgeInfo the map holds for a key: the edges are inserted newest
\* first and an insert replaces the value, so the oldest edge stays
EdgeInfoFor(g, container, key) ==
    LET k == SetMin({j \in 1..Len(g.out[container]) :
                        UniqueEdgeInfo(g, g.out[container][j]) = key})
    IN g.out[container][k]

FindUnorderedContainerMembershipConflictsAndUpdates(g, to_rebase_change_set, to_rebase_container_index, onto, onto_change_set, onto_container_index, hash_order) ==
    LET to_rebase_keys == EdgeInfoKeys(g, to_rebase_container_index)
        onto_keys == EdgeInfoKeys(onto, onto_container_index)
        only_to_rebase_edges == HashIterate(to_rebase_keys \ onto_keys, hash_order)
        only_onto_edges == HashIterate(onto_keys \ to_rebase_keys, hash_order)
        root_seen_as_of_onto ==
            EntryFor(g.nodes[g.root].vector_clock_recently_seen, onto_change_set)
        ToRebaseEdge(key) == EdgeInfoFor(g, to_rebase_container_index, key)
        OntoEdge(key) == EdgeInfoFor(onto, onto_container_index, key)
        ToRebaseVerdict(key) ==
            LET e == ToRebaseEdge(key)
            IN IF EntryFor(EdgeVectorClockFirstSeen(e.w), onto_change_set) = Absent
               THEN "None"
               ELSE IF EntryFor(g.nodes[e.to].vector_clock_write,
                                to_rebase_change_set) > root_seen_as_of_onto
                    THEN "ModifyRemovedItem"
                    ELSE "RemoveEdge"
        OntoVerdict(key) ==
            LET e == OntoEdge(key)
                onto_first_seen ==
                    EntryFor(EdgeVectorClockFirstSeen(e.w), onto_change_set)
            IN IF onto_first_seen # Absent
               THEN IF root_seen_as_of_onto # Absent
                       /\ onto_first_seen > root_seen_as_of_onto
                    THEN "NewEdge" ELSE "None"
               ELSE IF root_seen_as_of_onto # Absent
                       /\ HasEntriesNewerThan(onto.nodes[e.to].vector_clock_write,
                                              root_seen_as_of_onto)
                    THEN "RemoveModifiedItem" ELSE "None"
        modify_removed == SelectSeq(only_to_rebase_edges,
                              LAMBDA k : ToRebaseVerdict(k) = "ModifyRemovedItem")
        remove_edge == SelectSeq(only_to_rebase_edges,
                           LAMBDA k : ToRebaseVerdict(k) = "RemoveEdge")
        new_edge == SelectSeq(only_onto_edges,
                        LAMBDA k : OntoVerdict(k) = "NewEdge")
        remove_modified == SelectSeq(only_onto_edges,
                               LAMBDA k : OntoVerdict(k) = "RemoveModifiedItem")
    IN [conflicts |->
            [i \in 1..Len(modify_removed) |->
                ConflictModifyRemovedItem(ToRebaseEdge(modify_removed[i]).to)]
            \o [i \in 1..Len(remove_modified) |->
                ConflictRemoveModifiedItem(to_rebase_container_index,
                                           OntoEdge(remove_modified[i]).to)],
        updates |->
            [i \in 1..Len(remove_edge) |->
                UpdateRemoveEdge(to_rebase_container_index,
                                 ToRebaseEdge(remove_edge[i]).to)]
            \o [i \in 1..Len(new_edge) |->
                UpdateNewEdge(to_rebase_container_index,
                              OntoEdge(new_edge[i]).to, OntoEdge(new_edge[i]).w)]]

\* the set of the elements of a sequence
Range(s) == {s[i] : i \in 1..Len(s)}

\* the target the HashMap<id, NodeIndex> of a container holds for an id:
\* the target of the oldest edge to a node with that id, Absent with none
ItemIndexFor(g, container, id) ==
    LET found == {j \in 1..Len(g.out[container]) :
                     g.nodes[g.out[container][j].to].id = id}
    IN IF found = {} THEN Absent ELSE g.out[container][SetMin(found)].to

\* both containers have an ordering node.  res is Err when an id that only
\* one order holds has no edge from its container (NodeWithIdNotFound)
FindOrderedContainerMembershipConflictsAndUpdates(g, to_rebase_change_set, to_rebase_container_index, to_rebase_ordering_index, onto, onto_change_set, onto_container_index, onto_ordering_index, hash_order) ==
    LET onto_ordering == onto.nodes[onto_ordering_index]
        to_rebase_ordering == g.nodes[to_rebase_ordering_index]
        onto_ordering_set == Range(onto_ordering.order)
        to_rebase_ordering_set == Range(to_rebase_ordering.order)
        only_onto_items == onto_ordering_set \ to_rebase_ordering_set
        only_to_rebase_items == to_rebase_ordering_set \ onto_ordering_set
        onto_edges == EdgesDirected(onto, onto_container_index)
        to_rebase_edges == EdgesDirected(g, to_rebase_container_index)
        \* onto's ordering is the newer one
        new_edges == SelectSeq(onto_edges,
                         LAMBDA e : onto.nodes[e.to].id \in only_onto_items)
        removed_edges == SelectSeq(to_rebase_edges,
                             LAMBDA e : g.nodes[e.to].id \in only_to_rebase_items)
        \* both orderings were written concurrently
        to_rebase_items == HashIterateIds(only_to_rebase_items, hash_order)
        onto_items == HashIterateIds(only_onto_items, hash_order)
        ToRebaseItem(id) == ItemIndexFor(g, to_rebase_container_index, id)
        OntoItem(id) == ItemIndexFor(onto, onto_container_index, id)
        onto_root_seen_as_of ==
            EntryFor(g.nodes[g.root].vector_clock_recently_seen, onto_change_set)
        ToRebaseVerdict(id) ==
            LET idx == ToRebaseItem(id)
                w == EdgeWeightOf(g, to_rebase_container_index, idx)
            IN IF EntryFor(EdgeVectorClockFirstSeen(w), onto_change_set) = Absent
               THEN "None"
               ELSE IF EntryFor(g.nodes[idx].vector_clock_write,
                                to_rebase_change_set) # Absent
                    THEN "ModifyRemovedItem"
                    ELSE "RemoveEdge"
        OntoVerdict(id) ==
            LET idx == OntoItem(id)
                w == EdgeWeightOf(onto, onto_container_index, idx)
                onto_first_seen == EntryFor(EdgeVectorClockFirstSeen(w), onto_change_set)
            IN IF onto_first_seen # Absent
               THEN IF onto_root_seen_as_of # Absent
                       /\ onto_first_seen > onto_root_seen_as_of
                    THEN "NewEdge" ELSE "None"
               ELSE IF onto_root_seen_as_of # Absent
                       /\ HasEntriesNewerThan(onto.nodes[idx].vector_clock_write,
                                              onto_root_seen_as_of)
                    THEN "RemoveModifiedItem" ELSE "None"
        modify_removed == SelectSeq(to_rebase_items,
                              LAMBDA id : ToRebaseVerdict(id) = "ModifyRemovedItem")
        remove_edge == SelectSeq(to_rebase_items,
                           LAMBDA id : ToRebaseVerdict(id) = "RemoveEdge")
        new_edge == SelectSeq(onto_items, LAMBDA id : OntoVerdict(id) = "NewEdge")
        remove_modified == SelectSeq(onto_items,
                               LAMBDA id : OntoVerdict(id) = "RemoveModifiedItem")
        nothing == [res |-> "Ok", conflicts |-> <<>>, updates |-> <<>>]
    IN IF onto_ordering.order = to_rebase_ordering.order
       THEN nothing
       ELSE IF IsNewerThan(onto_ordering.vector_clock_write,
                           to_rebase_ordering.vector_clock_write)
       THEN [res |-> "Ok", conflicts |-> <<>>,
             updates |->
                [i \in 1..Len(new_edges) |->
                    UpdateNewEdge(to_rebase_container_index,
                                  new_edges[i].to, new_edges[i].w)]
                \o [i \in 1..Len(removed_edges) |->
                    UpdateRemoveEdge(to_rebase_container_index, removed_edges[i].to)]
                \o <<UpdateReplaceSubgraph(onto_ordering_index,
                                           to_rebase_ordering_index)>>]
       ELSE IF IsNewerThan(to_rebase_ordering.vector_clock_write,
                           onto_ordering.vector_clock_write)
       THEN nothing
       ELSE IF \/ \E id \in only_to_rebase_items : ToRebaseItem(id) = Absent
               \/ \E id \in only_onto_items : OntoItem(id) = Absent
       THEN [res |-> "NodeWithIdNotFound", conflicts |-> <<>>, updates |-> <<>>]
       ELSE [res |-> "Ok",
             conflicts |->
                [i \in 1..Len(modify_removed) |->
                    ConflictModifyRemovedItem(ToRebaseItem(modify_removed[i]))]
                \o [i \in 1..Len(remove_modified) |->
                    ConflictRemoveModifiedItem(to_rebase_container_index,
                                               OntoItem(remove_modified[i]))],
             updates |->
                [i \in 1..Len(remove_edge) |->
                    UpdateRemoveEdge(to_rebase_container_index,
                                     ToRebaseItem(remove_edge[i]))]
                \o [i \in 1..Len(new_edge) |->
                    UpdateNewEdge(to_rebase_container_index, OntoItem(new_edge[i]),
                                  EdgeWeightOf(onto, onto_container_index,
                                               OntoItem(new_edge[i])))]]

\* the candidates of to_rebase an onto node is compared with: root_index
\* for the root, every stored content node of the lineage for another
\* content node, none for an ordering node
ToRebaseNodeIndexes(g, onto, onto_node_index) ==
    LET onto_node_weight == onto.nodes[onto_node_index]
    IN IF onto_node_weight.kind # "Content" THEN <<>>
       ELSE IF onto_node_weight.addr = "Root" THEN <<g.root>>
       ELSE GetNodeIndexByLineage(g, onto_node_weight.lineage_id)

\* the comparison of one candidate with the onto node, past the test of
\* the merkle hashes: res, whether the loop returns at once (done), and the
\* conflicts and updates pushed
CompareCandidate(c, onto_node_index, to_rebase_node_index) ==
    LET g == c.to_rebase
        onto == c.onto
        onto_node_weight == onto.nodes[onto_node_index]
        to_rebase_node_weight == g.nodes[to_rebase_node_index]
        content ==
            IF onto_node_weight.content_hash = to_rebase_node_weight.content_hash
            THEN "Same"
            ELSE IF IsNewerThan(to_rebase_node_weight.vector_clock_write,
                                onto_node_weight.vector_clock_write)
            THEN "ToRebaseNewer"
            ELSE IF IsNewerThan(onto_node_weight.vector_clock_write,
                                to_rebase_node_weight.vector_clock_write)
            THEN "OntoNewer"
            ELSE "Concurrent"
        conflicts ==
            IF content = "Concurrent"
            THEN <<ConflictNodeContent(to_rebase_node_index, onto_node_index)>>
            ELSE <<>>
        updates ==
            IF content = "OntoNewer"
            THEN <<UpdateReplaceSubgraph(onto_node_index, to_rebase_node_index)>>
            ELSE <<>>
        onto_ordering_node_indexes ==
            OrderingNodeIndexesForNodeIndex(onto, onto_node_index)
        to_rebase_ordering_node_indexes ==
            OrderingNodeIndexesForNodeIndex(g, to_rebase_node_index)
        failed == [res |-> "Err", done |-> TRUE,
                   conflicts |-> <<>>, updates |-> <<>>]
    IN IF Len(onto_ordering_node_indexes) > 1
          \/ Len(to_rebase_ordering_node_indexes) > 1
       THEN failed
       ELSE IF onto_ordering_node_indexes = <<>>
               /\ to_rebase_ordering_node_indexes = <<>>
       THEN CHOOSE out \in
                {[res |-> "Ok", done |-> FALSE,
                  conflicts |-> conflicts \o r.conflicts,
                  updates |-> updates \o r.updates] :
                    r \in {FindUnorderedContainerMembershipConflictsAndUpdates(
                               g, c.to_rebase_change_set, to_rebase_node_index,
                               onto, c.onto_change_set, onto_node_index,
                               c.hash_order)}} : TRUE
       ELSE IF onto_ordering_node_indexes = <<>>
               \/ to_rebase_ordering_node_indexes = <<>>
       THEN failed
       ELSE CHOOSE out \in
                {IF r.res # "Ok" THEN failed
                 ELSE [res |-> "Ok", done |-> TRUE,
                       conflicts |-> conflicts \o r.conflicts,
                       updates |-> updates \o r.updates] :
                    r \in {FindOrderedContainerMembershipConflictsAndUpdates(
                               g, c.to_rebase_change_set, to_rebase_node_index,
                               to_rebase_ordering_node_indexes[1],
                               onto, c.onto_change_set, onto_node_index,
                               onto_ordering_node_indexes[1], c.hash_order)}} : TRUE

\* the loop over the candidates of one Discover event, from candidate k on.
\* c holds the arguments of detect_conflicts_and_updates and the hash
\* order, acc the conflicts and updates pushed so far and the changed flag.
\* A candidate with the onto node's merkle hash is passed over; the
\* comparison of two ordered containers ends the loop with Continue.
\* compared lists the candidates the loop has come to
RECURSIVE CandidateLoop(_, _, _, _, _)
CandidateLoop(c, onto_node_index, to_rebase_node_indexes, k, acc) ==
    IF k > Len(to_rebase_node_indexes)
    THEN [res |-> "Ok",
          control |-> IF acc.any_content_with_lineage_has_changed
                      THEN "Continue" ELSE "Prune",
          conflicts |-> acc.conflicts, updates |-> acc.updates,
          compared |-> acc.compared]
    ELSE IF c.onto.nodes[onto_node_index].merkle_tree_hash
            = c.to_rebase.nodes[to_rebase_node_indexes[k]].merkle_tree_hash
    THEN CandidateLoop(c, onto_node_index, to_rebase_node_indexes, k + 1,
             [acc EXCEPT !.compared =
                             Append(acc.compared, to_rebase_node_indexes[k])])
    ELSE CHOOSE out \in
            {IF r.res # "Ok"
             THEN [res |-> "Err", control |-> "Break",
                   conflicts |-> <<>>, updates |-> <<>>,
                   compared |-> Append(acc.compared, to_rebase_node_indexes[k])]
             ELSE IF r.done
             THEN [res |-> "Ok", control |-> "Continue",
                   conflicts |-> acc.conflicts \o r.conflicts,
                   updates |-> acc.updates \o r.updates,
                   compared |-> Append(acc.compared, to_rebase_node_indexes[k])]
             ELSE CandidateLoop(c, onto_node_index, to_rebase_node_indexes, k + 1,
                      [any_content_with_lineage_has_changed |-> TRUE,
                       conflicts |-> acc.conflicts \o r.conflicts,
                       updates |-> acc.updates \o r.updates,
                       compared |-> Append(acc.compared,
                                           to_rebase_node_indexes[k])]) :
                r \in {CompareCandidate(c, onto_node_index,
                                        to_rebase_node_indexes[k])}} : TRUE

\* the event of a node that never prunes the walk
ProcessDfsEventNeverPrunes(c, onto_node_index) ==
    CHOOSE out \in
        {[res |-> r.res,
          control |-> IF r.res = "Ok" THEN "Continue" ELSE r.control,
          conflicts |-> r.conflicts, updates |-> r.updates,
          compared |-> r.compared] :
            r \in {CandidateLoop(c, onto_node_index,
                       ToRebaseNodeIndexes(c.to_rebase, c.onto, onto_node_index), 1,
                       [any_content_with_lineage_has_changed |-> FALSE,
                        conflicts |-> <<>>, updates |-> <<>>,
                        compared |-> <<>>])}} : TRUE

\* detect_conflicts_and_updates_process_dfs_event for Discover(onto_node_index)
ProcessDfsEvent(c, onto_node_index) ==
    CandidateLoop(c, onto_node_index,
        ToRebaseNodeIndexes(c.to_rebase, c.onto, onto_node_index), 1,
        [any_content_with_lineage_has_changed |-> FALSE,
         conflicts |-> <<>>, updates |-> <<>>, compared |-> <<>>])

\* depth_first_search over onto: a node is discovered once, its event is
\* processed, and unless the event prunes or fails the targets of its edges
\* are walked, newest edge first; a failure ends the walk
RECURSIVE DepthFirstSearch(_, _, _)
RECURSIVE DepthFirstSearchKids(_, _, _, _)
DepthFirstSearch(c, u, st) ==
    IF st.res # "Ok" \/ u \in st.discovered THEN st
    ELSE CHOOSE out \in
            {IF r.res # "Ok" \/ r.control = "Prune"
             THEN [res |-> r.res,
                   discovered |-> st.discovered \cup {u},
                   examined |-> Append(st.examined, u),
                   conflicts |-> st.conflicts \o r.conflicts,
                   updates |-> st.updates \o r.updates]
             ELSE DepthFirstSearchKids(c, EdgesDirected(c.onto, u), 1,
                      [res |-> r.res,
                       discovered |-> st.discovered \cup {u},
                       examined |-> Append(st.examined, u),
                       conflicts |-> st.conflicts \o r.conflicts,
                       updates |-> st.updates \o r.updates]) :
                r \in {ProcessDfsEvent(c, u)}} : TRUE
\* a walk that gives up at the first conflict
DepthFirstSearchKidsUntilConflict(c, edges, k, st) ==
    IF k > Len(edges) \/ st.conflicts # <<>> THEN st
    ELSE CHOOSE out \in
            {DepthFirstSearchKids(c, edges, k + 1, st1) :
                st1 \in {DepthFirstSearch(c, edges[k].to, st)}} : TRUE
DepthFirstSearchKids(c, edges, k, st) ==
    IF k > Len(edges) THEN st
    ELSE CHOOSE out \in
            {DepthFirstSearchKids(c, edges, k + 1, st1) :
                st1 \in {DepthFirstSearch(c, edges[k].to, st)}} : TRUE

\* detect_conflicts_and_updates of to_rebase g against onto: the result,
\* the two lists, and the onto nodes whose Discover event was processed
DetectConflictsAndUpdates(g, to_rebase_change_set, onto, onto_change_set, hash_order) ==
    CHOOSE out \in
        {IF st.res # "Ok"
         THEN [res |-> "GraphTraversal", conflicts |-> <<>>, updates |-> <<>>,
               examined |-> st.examined]
         ELSE [res |-> "Ok", conflicts |-> st.conflicts, updates |-> st.updates,
               examined |-> st.examined] :
            st \in {DepthFirstSearch(
                        [to_rebase |-> g,
                         to_rebase_change_set |-> to_rebase_change_set,
                         onto |-> onto, onto_change_set |-> onto_change_set,
                         hash_order |-> hash_order],
                        onto.root,
                        [res |-> "Ok", discovered |-> {}, examined |-> <<>>,
                         conflicts |-> <<>>, updates |-> <<>>])}} : TRUE

(***************************************************************************)
(* The rebase specification.  graph is to_rebase, other is onto.  onto is  *)
(* built in the base change set; to_rebase is a clone of it that goes on   *)
(* in a change set of its own while onto goes on in the base change set,   *)
(* as in the tests of graph.rs.  last carries the log of the calls made on *)
(* either side since the clone.                                            *)
(***************************************************************************)
MaxRebaseCalls == 2
NumRebaseHashes == 3

OntoChangeSet == 1
ToRebaseChangeSet == 2

RebaseHashes == 1..NumRebaseHashes
RebaseOrders == {<<2>>, <<1, 2>>}
Sides == {"to_rebase", "onto"}

SideChangeSet(side) == IF side = "onto" THEN OntoChangeSet ELSE ToRebaseChangeSet

LogEntry(side, op, a, b, res, ret) ==
    [side |-> side, op |-> op, a |-> a, b |-> b, res |-> res, ret |-> ret]

\* the entry of an add_edge on snapshot g: the indices passed, the ids of
\* the two nodes and the kind of the edge
EdgeLogEntry(side, g, kind, from, to, res, ret) ==
    [side |-> side, op |-> "add_edge", a |-> from, b |-> to,
     a_id |-> g.nodes[from].id, b_id |-> g.nodes[to].id, kind |-> kind,
     res |-> res, ret |-> ret]

\* root -> A -> B with A's ordering node O, cleaned up
OrderedSnapshot ==
    LET cs == OntoChangeSet
        g0 == New(cs, 0)
        a == AddNode(g0, NewContent(cs, 1, "Component", 1))
        b == AddNode(a.g, NewContent(cs, 2, "Component", 2))
        o == AddNode(b.g, NewOrdering(cs, 3, <<2>>))
        g1 == AddEdge(o.g, cs, o.g.root, EdgeWeightNew(cs, "Uses"), a.idx).g
        g2 == AddEdge(g1, cs, GetNodeIndexById(g1, 1),
                      EdgeWeightNew(cs, "Uses"), b.idx).g
        g3 == AddEdge(g2, cs, GetNodeIndexById(g2, 1),
                      EdgeWeightNew(cs, OrderingKind), o.idx).g
    IN [g |-> Cleanup(g3), nextId |-> 4]

\* to_rebase = base.clone(), nothing done since
ClonedPair(base) ==
    [to_rebase |-> base.g, onto |-> base.g, nextId |-> base.nextId, log |-> <<>>]

\* one add_node(w) on a side of a pair
PairAddNode(p, side, w) ==
    LET r == AddNode(IF side = "onto" THEN p.onto ELSE p.to_rebase, w)
    IN [to_rebase |-> IF side = "onto" THEN p.to_rebase ELSE r.g,
        onto |-> IF side = "onto" THEN r.g ELSE p.onto,
        nextId |-> p.nextId + 1,
        log |-> Append(p.log, LogEntry(side, "add_node", w.id, w.content_hash,
                                       "Ok", r.idx))]

\* one update_content(id, hash) on a side of a pair
PairUpdateContent(p, side, id, hash) ==
    LET r == UpdateContent(IF side = "onto" THEN p.onto ELSE p.to_rebase,
                           SideChangeSet(side), id, hash)
    IN [to_rebase |-> IF side = "onto" THEN p.to_rebase ELSE r.g,
        onto |-> IF side = "onto" THEN r.g ELSE p.onto,
        nextId |-> p.nextId,
        log |-> Append(p.log, LogEntry(side, "update_content", id, hash,
                                       r.res, r.ret))]

\* one cleanup on a side of a pair
PairCleanup(p, side) ==
    [to_rebase |-> IF side = "onto" THEN p.to_rebase ELSE Cleanup(p.to_rebase),
     onto |-> IF side = "onto" THEN Cleanup(p.onto) ELSE p.onto,
     nextId |-> p.nextId,
     log |-> Append(p.log, LogEntry(side, "cleanup", Absent, Absent, "Ok", Absent))]

\* the pairs a run starts from a clone t of the triangle: the fresh clone;
\* the clone one side of which has added a node since; the clone whose A
\* was updated by to_rebase, with and without a cleanup, or by both sides;
\* two ordering nodes with different orders added one on each side; two
\* nodes added by onto
PairsFromTriangle(t) ==
    {t,
     PairAddNode(t, "onto", NewContent(OntoChangeSet, t.nextId, "Component", 1)),
     PairAddNode(t, "to_rebase",
                 NewContent(ToRebaseChangeSet, t.nextId, "Component", 1)),
     PairAddNode(
         PairAddNode(t, "to_rebase",
                     NewOrdering(ToRebaseChangeSet, t.nextId, <<1, 2>>)),
         "onto", NewOrdering(OntoChangeSet, t.nextId + 1, <<2, 1>>)),
     PairAddNode(
         PairAddNode(t, "onto",
                     NewContent(OntoChangeSet, t.nextId, "Component", 1)),
         "onto", NewContent(OntoChangeSet, t.nextId + 1, "Component", 2))}
    \cup UNION {{PairCleanup(updated, "to_rebase"),
                 PairUpdateContent(updated, "onto", 1, 2)} :
                    updated \in {PairUpdateContent(t, "to_rebase", 1, 3)}}

\* the pairs a run starts from a clone o of the ordered container: the
\* fresh clone; the clone with a second ordering node added on onto
PairsFromOrdered(o) ==
    {o, PairAddNode(o, "onto", NewOrdering(OntoChangeSet, o.nextId, <<2>>))}

RebaseInitialPairs ==
    UNION {PairsFromTriangle(t) : t \in {ClonedPair(b) : b \in {TriangleSnapshot}}}
    \cup
    UNION {PairsFromOrdered(o) : o \in {ClonedPair(b) : b \in {OrderedSnapshot}}}

RebaseCall(op, log) ==
    [op |-> op, res |-> "Ok", conflicts |-> <<>>, updates |-> <<>>,
     examined |-> <<>>, log |-> log]

InitRebase ==
    /\ \E p \in RebaseInitialPairs :
          /\ graph = p.to_rebase
          /\ other = p.onto
          /\ nextId = p.nextId
          /\ last = RebaseCall("clone", p.log)
    /\ change_set = ToRebaseChangeSet
    /\ calls = 0

SideGraph(side) == IF side = "onto" THEN other ELSE graph

\* the step of a mutation of one side: the side's snapshot becomes g, the
\* call is logged
RebaseStep(side, g, entry) ==
    /\ graph' = IF side = "onto" THEN graph ELSE g
    /\ other' = IF side = "onto" THEN g ELSE other
    /\ last' = RebaseCall(entry.op, Append(last.log, entry))
    /\ calls' = calls + 1
    /\ UNCHANGED change_set

RebaseOpen == calls < MaxRebaseCalls /\ last.op # "detect_conflicts_and_updates"

rebase_add_node ==
    /\ RebaseOpen
    /\ \E side \in Sides :
          \E w \in {NewContent(SideChangeSet(side), nextId, "Component", h) :
                        h \in RebaseHashes}
                   \cup {NewOrdering(SideChangeSet(side), nextId, order) :
                        order \in RebaseOrders} :
             \E r \in {AddNode(SideGraph(side), w)} :
                RebaseStep(side, r.g,
                    LogEntry(side, "add_node", w.id, w.content_hash, "Ok", r.idx))
    /\ nextId' = nextId + 1

rebase_add_edge ==
    /\ RebaseOpen
    /\ \E side \in Sides, kind \in RebaseEdgeKinds :
          \E from \in NodeIndices(SideGraph(side)),
             to \in NodeIndices(SideGraph(side)) :
             \E r \in {AddEdge(SideGraph(side), SideChangeSet(side), from,
                              EdgeWeightNew(SideChangeSet(side), kind), to)} :
                RebaseStep(side, r.g,
                    EdgeLogEntry(side, SideGraph(side), kind, from, to,
                                 r.res, r.ret))
    /\ UNCHANGED nextId

rebase_update_content ==
    /\ RebaseOpen
    /\ \E side \in Sides, id \in 0..(nextId - 1), h \in RebaseHashes :
          \E r \in {UpdateContent(SideGraph(side), SideChangeSet(side), id, h)} :
             RebaseStep(side, r.g,
                 LogEntry(side, "update_content", id, h, r.res, r.ret))
    /\ UNCHANGED nextId

rebase_cleanup ==
    /\ RebaseOpen
    /\ \E side \in Sides :
          \E g \in {Cleanup(SideGraph(side))} :
             RebaseStep(side, g,
                 LogEntry(side, "cleanup", Absent, Absent, "Ok", Absent))
    /\ UNCHANGED nextId

\* to_rebase.detect_conflicts_and_updates(to_rebase_change_set, onto,
\* onto_change_set); nothing is called after it
detect_conflicts_and_updates ==
    /\ last.op # "detect_conflicts_and_updates"
    /\ \E hash_order \in HashIterationOrders :
          \E r \in {DetectConflictsAndUpdates(graph, ToRebaseChangeSet,
                                             other, OntoChangeSet, hash_order)} :
             last' = [op |-> "detect_conflicts_and_updates", res |-> r.res,
                      conflicts |-> r.conflicts, updates |-> r.updates,
                      examined |-> r.examined, log |-> last.log]
    /\ UNCHANGED <<graph, other, change_set, nextId, calls>>

NextRebase ==
    \/ rebase_add_node
    \/ rebase_add_edge
    \/ rebase_update_content
    \/ rebase_cleanup
    \/ detect_conflicts_and_updates

SpecRebase == InitRebase /\ [][NextRebase]_vars

(***************************************************************************)
(* The workflow tree of workflow.rs.  A tree is a workflow of a kind with  *)
(* steps, each a command (a function binding) or a nested workflow.  run   *)
(* prepares a record per command, executes the tree and post-processes     *)
(* every record.  The functions behind the bindings are outside of the     *)
(* repository: an execution either yields a (result, error) pair or fails. *)
(***************************************************************************)
NumBindings == 3
NumValues == 2
NumWorkflows == 3

FuncBindingIds == 1..NumBindings
WorkflowNames == 1..NumWorkflows

\* WorkflowKind
WorkflowKinds == {"Conditional", "Exceptional", "Parallel"}

\* WorkflowTreeStep::Command { func_binding }
TreeCommand(func_binding) == [type |-> "Command", func_binding |-> func_binding]

\* WorkflowTreeStep::Workflow(WorkflowTree { name, kind, steps })
WorkflowTree(name, kind, steps) ==
    [type |-> "Workflow", name |-> name, kind |-> kind, steps |-> steps]

\* Option::None of a value
NoneValue == 0

\* the value of a record before its command ran: (None, None)
NoValue == <<NoneValue, NoneValue>>

\* what execute_critical_section returns: Ok((Some(v), None)), or an error
CommandValues == {<<v, NoneValue>> : v \in 1..NumValues}
CommandOutcomes ==
    {[res |-> "Ok", value |-> value] : value \in CommandValues}
    \cup {[res |-> "Err", value |-> NoValue]}

\* FuncToExecute, without the handles the model does not look into
FuncToExecute(func_binding, value) ==
    [func_binding |-> func_binding, value |-> value]

\* HashMap::insert of one entry and HashMap::extend: the entries of m
\* replace those of map with the same key
MapInsert(map, k, v) == (k :> v) @@ map
MapExtend(map, m) == m @@ map

\* the bindings of the commands of a tree, nested ones included
RECURSIVE TreeCommands(_)
TreeCommands(tree) ==
    UNION {IF tree.steps[k].type = "Command"
           THEN {tree.steps[k].func_binding}
           ELSE TreeCommands(tree.steps[k]) : k \in 1..Len(tree.steps)}

\* the kinds of a tree and of the workflows nested in it
RECURSIVE TreeKinds(_)
TreeKinds(tree) ==
    {tree.kind}
    \cup UNION {IF tree.steps[k].type = "Command" THEN {}
                ELSE TreeKinds(tree.steps[k]) : k \in 1..Len(tree.steps)}

\* prepare: a record with the value (None, None) and a receiver per command,
\* depth first
RECURSIVE PrepareSteps(_, _, _)
\* a prepare that leaves the commands of nested workflows out
PrepareStepsSkipsNested(steps, k, acc) ==
    IF k > Len(steps) THEN acc
    ELSE LET step == steps[k]
         IN IF step.type = "Command"
            THEN PrepareSteps(steps, k + 1,
                     [map |-> MapInsert(acc.map, step.func_binding,
                                  FuncToExecute(step.func_binding, NoValue)),
                      rxs |-> acc.rxs \cup {step.func_binding}])
            ELSE PrepareSteps(steps, k + 1, acc)
PrepareSteps(steps, k, acc) ==
    IF k > Len(steps) THEN acc
    ELSE LET step == steps[k]
         IN IF step.type = "Command"
            THEN PrepareSteps(steps, k + 1,
                     [map |-> MapInsert(acc.map, step.func_binding,
                                  FuncToExecute(step.func_binding, NoValue)),
                      rxs |-> acc.rxs \cup {step.func_binding}])
            ELSE CHOOSE out \in
                    {PrepareSteps(steps, k + 1,
                         [map |-> MapExtend(acc.map, sub.map),
                          rxs |-> acc.rxs \cup sub.rxs]) :
                        sub \in {PrepareSteps(step.steps, 1,
                                     [map |-> <<>>, rxs |-> {}])}} : TRUE

Prepare(tree) == PrepareSteps(tree.steps, 1, [map |-> <<>>, rxs |-> {}])

\* the result of execute: Ok(map), an error, or the panic of todo!()
ExecuteOk(map) == [res |-> "Ok", map |-> map]
ExecuteFailed(res) == [res |-> res, map |-> <<>>]

\* the record of binding id with its value replaced
SetValue(map, id, value) ==
    [map EXCEPT ![id] = FuncToExecute(map[id].func_binding, value)]

\* the place of a workflow in the order the tasks complete in
Rank(order, name) == CHOOSE i \in 1..Len(order) : order[i] = name

\* the steps of a Parallel workflow by kind, in the order they are spawned
CommandSteps(steps) == SelectSeq(steps, LAMBDA s : s.type = "Command")
WorkflowSteps(steps) == SelectSeq(steps, LAMBDA s : s.type = "Workflow")

\* the first loop of the Parallel arm ends the call when a command was not
\* prepared
AllPrepared(steps, map) ==
    \A k \in 1..Len(steps) :
        steps[k].type = "Command" => steps[k].func_binding \in DOMAIN map

\* the loop over commands.join_next(): every value is stored in its record
RECURSIVE JoinCommands(_, _, _, _)
JoinCommands(commands, k, map, outcome) ==
    IF k > Len(commands) THEN map
    ELSE JoinCommands(commands, k + 1,
             SetValue(map, commands[k].func_binding,
                      outcome[commands[k].func_binding].value),
             outcome)

RECURSIVE Execute(_, _, _, _)
RECURSIVE ExecuteConditional(_, _, _, _, _)
RECURSIVE JoinWorkflows(_, _, _, _, _)

\* the Conditional arm: the steps run one after the other on the one map
ExecuteConditional(steps, k, map, outcome, order) ==
    IF k > Len(steps) THEN ExecuteOk(map)
    ELSE LET step == steps[k]
         IN IF step.type = "Command"
            THEN IF step.func_binding \notin DOMAIN map
                 THEN ExecuteFailed("CommandNotPrepared")
                 ELSE IF outcome[step.func_binding].res = "Err"
                 THEN ExecuteFailed("Err")
                 ELSE ExecuteConditional(steps, k + 1,
                          SetValue(map, step.func_binding,
                                   outcome[step.func_binding].value),
                          outcome, order)
            ELSE CHOOSE out \in
                    {IF r.res # "Ok" THEN r
                     ELSE ExecuteConditional(steps, k + 1,
                              MapExtend(map, r.map), outcome, order) :
                        r \in {Execute(step, map, outcome, order)}} : TRUE

\* the loop over workflows.join_next(): the tasks were spawned with a clone
\* of the map as it was at the spawn and are joined as they complete, each
\* result extending the map
JoinWorkflows(waiting, spawned_with, map, outcome, order) ==
    IF waiting = {} THEN ExecuteOk(map)
    ELSE CHOOSE out \in
            {IF r.res # "Ok" THEN r
             ELSE JoinWorkflows({w \in waiting : w.name # r.name}, spawned_with,
                      MapExtend(map, r.map), outcome, order) :
                r \in {[name |-> w.name] @@ Execute(w, spawned_with, outcome, order) :
                          w \in {x \in waiting :
                                    \A y \in waiting :
                                        Rank(order, x.name) <= Rank(order, y.name)}}} :
            TRUE

\* the Parallel arm: every step is spawned, the commands are joined, then
\* the workflows
ExecuteParallel(steps, map, outcome, order) ==
    IF ~AllPrepared(steps, map) THEN ExecuteFailed("CommandNotPrepared")
    ELSE IF \E k \in 1..Len(steps) :
               steps[k].type = "Command"
               /\ outcome[steps[k].func_binding].res = "Err"
    THEN ExecuteFailed("Err")
    ELSE LET workflows == WorkflowSteps(steps)
         IN JoinWorkflows({workflows[k] : k \in 1..Len(workflows)}, map,
                          JoinCommands(CommandSteps(steps), 1, map, outcome),
                          outcome, order)

\* execute of a tree on a map, the commands yielding outcome and the tasks
\* of a Parallel workflow completing in the order given
Execute(tree, map, outcome, order) ==
    IF tree.kind = "Conditional"
    THEN ExecuteConditional(tree.steps, 1, map, outcome, order)
    ELSE IF tree.kind = "Parallel"
    THEN ExecuteParallel(tree.steps, map, outcome, order)
    ELSE ExecuteFailed("Panic")

\* postprocess: every record of the map takes its receiver out of rxs and is
\* post-processed with its value
Postprocess(map, rxs) ==
    IF DOMAIN map \subseteq rxs
    THEN [res |-> "Ok", rxs |-> rxs \ DOMAIN map,
          processed |-> {<<id, map[id].value>> : id \in DOMAIN map}]
    ELSE [res |-> "CommandNotPrepared", rxs |-> rxs, processed |-> {}]

(***************************************************************************)
(* The workflow specification: run on a resolved tree.  last is the state  *)
(* of the run: the step made last, the tree, the map and the receivers,    *)
(* what the commands yielded and the order the tasks completed in.         *)
(***************************************************************************)
\* the trees a run is made on
WorkflowTrees ==
    {WorkflowTree(1, "Parallel",
         <<TreeCommand(1), TreeCommand(2),
           WorkflowTree(2, "Conditional", <<TreeCommand(3)>>)>>),
     WorkflowTree(1, "Parallel",
         <<WorkflowTree(2, "Conditional", <<TreeCommand(1)>>),
           WorkflowTree(3, "Conditional", <<TreeCommand(2), TreeCommand(3)>>)>>),
     WorkflowTree(1, "Parallel",
         <<TreeCommand(1), TreeCommand(2), TreeCommand(3)>>),
     WorkflowTree(1, "Conditional",
         <<TreeCommand(1),
           WorkflowTree(2, "Parallel", <<TreeCommand(2), TreeCommand(3)>>)>>),
     WorkflowTree(1, "Conditional",
         <<TreeCommand(1), TreeCommand(2), TreeCommand(3)>>),
     WorkflowTree(1, "Parallel",
         <<TreeCommand(1),
           WorkflowTree(2, "Exceptional", <<TreeCommand(2)>>)>>),
     WorkflowTree(1, "Conditional",
         <<TreeCommand(1), TreeCommand(2), TreeCommand(1)>>),
     WorkflowTree(1, "Parallel",
         <<TreeCommand(1),
           WorkflowTree(2, "Conditional", <<TreeCommand(1), TreeCommand(2)>>)>>)}

\* the orders the workflow tasks may complete in
CompletionOrders ==
    {order \in [WorkflowNames -> WorkflowNames] :
        \A i, j \in WorkflowNames : i # j => order[i] # order[j]}

WorkflowRun(op, tree, map, rxs, res, outcome, order, processed) ==
    [op |-> op, tree |-> tree, map |-> map, rxs |-> rxs, res |-> res,
     outcome |-> outcome, order |-> order, processed |-> processed]

InitWorkflow ==
    /\ \E tree \in WorkflowTrees :
          last = WorkflowRun("resolve", tree, <<>>, {}, "Ok", <<>>, <<>>, {})
    /\ graph = EmptyGraph
    /\ other = EmptyGraph
    /\ change_set = 1
    /\ nextId = 0
    /\ calls = 0

prepare ==
    /\ last.op = "resolve"
    /\ \E p \in {Prepare(last.tree)} :
          last' = WorkflowRun("prepare", last.tree, p.map, p.rxs, "Ok",
                              <<>>, <<>>, {})
    /\ calls' = calls + 1
    /\ UNCHANGED <<graph, other, change_set, nextId>>

execute ==
    /\ last.op = "prepare"
    /\ \E outcome \in [FuncBindingIds -> CommandOutcomes], order \in CompletionOrders :
          \E r \in {Execute(last.tree, last.map, outcome, order)} :
             last' = WorkflowRun("execute", last.tree, r.map, last.rxs, r.res,
                                 outcome, order, {})
    /\ calls' = calls + 1
    /\ UNCHANGED <<graph, other, change_set, nextId>>

postprocess ==
    /\ last.op = "execute"
    /\ last.res = "Ok"
    /\ \E p \in {Postprocess(last.map, last.rxs)} :
          last' = WorkflowRun("postprocess", last.tree, last.map, p.rxs, p.res,
                              last.outcome, last.order, p.processed)
    /\ calls' = calls + 1
    /\ UNCHANGED <<graph, other, change_set, nextId>>

NextWorkflow == prepare \/ execute \/ postprocess

SpecWorkflow == InitWorkflow /\ [][NextWorkflow]_vars

(***************************************************************************)
(* Resolution of a workflow by name.  The views come from functions kept   *)
(* outside of the repository: views maps a workflow name to the view its   *)
(* function returns, or to NoView when no function has the name.  The      *)
(* steps of a view carry no arguments, so a cache key is a name.           *)
(***************************************************************************)
MaxViewSteps == 2
NumCommands == 2

\* the commands a step may name, and the ones a function exists for
ViewCommands == 1..NumCommands
KnownCommands == {1}

\* WorkflowStep::Workflow { workflow, args } and ::Command { command, args }
StepWorkflow(workflow) == [type |-> "Workflow", workflow |-> workflow]
StepCommand(command) == [type |-> "Command", command |-> command]

ViewSteps == {StepWorkflow(w) : w \in WorkflowNames}
                    \cup {StepCommand(c) : c \in ViewCommands}

\* WorkflowView { name, kind, steps, args }
WorkflowView(kind, steps) == [kind |-> kind, steps |-> steps]

\* Func::find_by_attr(..).pop() is None
NoView == [kind |-> "None", steps |-> <<>>]

WorkflowViews ==
    {WorkflowView("Conditional", steps) :
        steps \in UNION {[1..n -> ViewSteps] : n \in 0..MaxViewSteps}}
    \cup {NoView}

\* the result of resolve_inner: Ok(tree), an error, or a panic
ResolveOk(tree, cache) == [res |-> "Ok", tree |-> tree, cache |-> cache]
ResolveFailed(res) == [res |-> res, tree |-> <<>>, cache |-> <<>>]

RECURSIVE ResolveInner(_, _, _, _)
RECURSIVE ResolveSteps(_, _, _, _, _, _, _)

\* the loop over view.steps of the workflow name: steps collects the
\* resolved steps, workflows_cache the trees resolved so far
ResolveSteps(views, name, k, recursion_marker, workflows_cache, kind, steps) ==
    IF k > Len(views[name].steps)
    THEN ResolveOk(WorkflowTree(name, kind, steps), workflows_cache)
    ELSE CHOOSE out \in
        {IF step.type = "Workflow"
         THEN IF step.workflow \in recursion_marker
              THEN ResolveFailed("Panic")
              ELSE IF step.workflow \in DOMAIN workflows_cache
              THEN ResolveSteps(views, name, k + 1, recursion_marker,
                       workflows_cache, kind,
                       Append(steps, workflows_cache[step.workflow]))
              ELSE CHOOSE sub \in
                      {IF r.res # "Ok" THEN r
                       ELSE ResolveSteps(views, name, k + 1, recursion_marker,
                                (step.workflow :> r.tree) @@ r.cache, kind,
                                Append(steps, r.tree)) :
                          r \in {ResolveInner(views, step.workflow,
                                              recursion_marker,
                                              workflows_cache)}} : TRUE
         ELSE IF step.command \notin KnownCommands
              THEN ResolveFailed("MissingCommand")
              ELSE ResolveSteps(views, name, k + 1, recursion_marker,
                       workflows_cache, kind,
                       Append(steps, TreeCommand(step.command))) :
            step \in {views[name].steps[k]}} : TRUE

ResolveInner(views, name, recursion_marker, workflows_cache) ==
    IF views[name] = NoView THEN ResolveFailed("MissingWorkflow")
    ELSE ResolveSteps(views, name, 1, recursion_marker \cup {name},
                      workflows_cache, views[name].kind, <<>>)

\* WorkflowView::resolve
Resolve(views, name) == ResolveInner(views, name, {}, <<>>)

(***************************************************************************)
(* The resolution specification: the views are drawn, then one name is     *)
(* resolved.  last holds the views, the name and the result.               *)
(***************************************************************************)
ResolveCall(op, views, name, res, tree) ==
    [op |-> op, views |-> views, name |-> name, res |-> res, tree |-> tree]

InitResolve ==
    /\ \E views \in [WorkflowNames -> WorkflowViews] :
          last = ResolveCall("define", views, 0, "Ok", <<>>)
    /\ graph = EmptyGraph
    /\ other = EmptyGraph
    /\ change_set = 1
    /\ nextId = 0
    /\ calls = 0

resolve ==
    /\ last.op = "define"
    /\ \E name \in WorkflowNames :
          \E r \in {Resolve(last.views, name)} :
             last' = ResolveCall("resolve", last.views, name, r.res, r.tree)
    /\ calls' = calls + 1
    /\ UNCHANGED <<graph, other, change_set, nextId>>

NextResolve == resolve

SpecResolve == InitResolve /\ [][NextResolve]_vars

(***************************************************************************)
(* The Parallel arm of execute, task by task.  Every step is spawned into  *)
(* one of the two JoinSets and runs from then on; the driver joins the     *)
(* command tasks as they complete, then the workflow tasks.  A JoinSet     *)
(* that is dropped aborts the tasks it still holds: the driver drops both  *)
(* when it returns, with an error or a panic too.                          *)
(***************************************************************************)
\* the trees whose execute takes the Parallel arm
ParallelTrees == {tree \in WorkflowTrees : tree.kind = "Parallel"}

\* a spawned task: the step it runs, the clone of the map it was given, how
\* far it is, and what it returned
Task(step, map, status, result) ==
    [step |-> step, map |-> map, status |-> status, result |-> result]

NoResult == ExecuteFailed("None")

\* what a command task returns: Ok((func_binding, value)) or the error
CommandTaskResult(outcome) ==
    IF outcome.res = "Ok" THEN [res |-> "Ok", map |-> outcome.value]
    ELSE ExecuteFailed("Err")

\* Drop of the JoinSets: the tasks that have not run to completion are
\* aborted
DropJoinSets(tasks) ==
    [k \in DOMAIN tasks |->
        IF tasks[k].status = "running"
        THEN Task(tasks[k].step, tasks[k].map, "aborted", tasks[k].result)
        ELSE tasks[k]]

SetStatus(tasks, k, status, result) ==
    [tasks EXCEPT ![k] = Task(tasks[k].step, tasks[k].map, status, result)]

\* join_next() of a JoinSet: the task of the set that completed first among
\* those not joined yet; 0 when none has completed
JoinNext(tasks, done, type) ==
    LET ready == {i \in 1..Len(done) :
                     /\ tasks[done[i]].step.type = type
                     /\ tasks[done[i]].status = "completed"}
    IN IF ready = {} THEN 0 ELSE done[SetMin(ready)]

\* the tasks of a JoinSet that join_next() has not returned yet
Unjoined(tasks, type) ==
    {k \in DOMAIN tasks : tasks[k].step.type = type /\ tasks[k].status # "joined"}

ParallelRun(op, tree, map, tasks, done, res) ==
    [op |-> op, tree |-> tree, map |-> map, tasks |-> tasks, done |-> done,
     res |-> res]

InitParallel ==
    /\ \E tree \in ParallelTrees :
          \E p \in {Prepare(tree)} :
             last = ParallelRun("prepare", tree, p.map, <<>>, <<>>, "Running")
    /\ graph = EmptyGraph
    /\ other = EmptyGraph
    /\ change_set = 1
    /\ nextId = 0
    /\ calls = 0

ParallelStep(run) ==
    /\ last' = run
    /\ calls' = calls + 1
    /\ UNCHANGED <<graph, other, change_set, nextId>>

\* one turn of the loop over self.steps
spawn ==
    /\ last.res = "Running"
    /\ Len(last.tasks) < Len(last.tree.steps)
    /\ \E step \in {last.tree.steps[Len(last.tasks) + 1]} :
          IF step.type = "Command" /\ step.func_binding \notin DOMAIN last.map
          THEN ParallelStep(ParallelRun("spawn", last.tree, last.map,
                   DropJoinSets(last.tasks), last.done, "CommandNotPrepared"))
          ELSE ParallelStep(ParallelRun("spawn", last.tree, last.map,
                   Append(last.tasks, Task(step, last.map, "running", NoResult)),
                   last.done, "Running"))

\* a spawned task runs to completion: a command yields its value or fails,
\* a nested workflow executes on its clone of the map
task_completes ==
    /\ last.res = "Running"
    /\ \E k \in DOMAIN last.tasks :
          /\ last.tasks[k].status = "running"
          /\ \E result \in
                IF last.tasks[k].step.type = "Command"
                THEN {CommandTaskResult(o) : o \in CommandOutcomes}
                ELSE {Execute(last.tasks[k].step, last.tasks[k].map, outcome, order) :
                         outcome \in [FuncBindingIds -> CommandOutcomes],
                         order \in CompletionOrders} :
                ParallelStep(ParallelRun("task_completes", last.tree, last.map,
                    SetStatus(last.tasks, k, "completed", result),
                    Append(last.done, k), "Running"))

\* one turn of the loop over commands.join_next()
join_next_command ==
    /\ last.res = "Running"
    /\ Len(last.tasks) = Len(last.tree.steps)
    /\ \E k \in {JoinNext(last.tasks, last.done, "Command")} :
          /\ k # 0
          /\ IF last.tasks[k].result.res # "Ok"
             THEN ParallelStep(ParallelRun("join_next_command", last.tree, last.map,
                      DropJoinSets(SetStatus(last.tasks, k, "joined",
                                             last.tasks[k].result)),
                      last.done, last.tasks[k].result.res))
             ELSE ParallelStep(ParallelRun("join_next_command", last.tree,
                      SetValue(last.map, last.tasks[k].step.func_binding,
                               last.tasks[k].result.map),
                      SetStatus(last.tasks, k, "joined", last.tasks[k].result),
                      last.done, "Running"))

\* one turn of the loop over workflows.join_next()
join_next_workflow ==
    /\ last.res = "Running"
    /\ Len(last.tasks) = Len(last.tree.steps)
    /\ Unjoined(last.tasks, "Command") = {}
    /\ \E k \in {JoinNext(last.tasks, last.done, "Workflow")} :
          /\ k # 0
          /\ IF last.tasks[k].result.res # "Ok"
             THEN ParallelStep(ParallelRun("join_next_workflow", last.tree, last.map,
                      DropJoinSets(SetStatus(last.tasks, k, "joined",
                                             last.tasks[k].result)),
                      last.done, last.tasks[k].result.res))
             ELSE ParallelStep(ParallelRun("join_next_workflow", last.tree,
                      MapExtend(last.map, last.tasks[k].result.map),
                      SetStatus(last.tasks, k, "joined", last.tasks[k].result),
                      last.done, "Running"))

\* both loops have ended: Ok(map)
execute_returns ==
    /\ last.res = "Running"
    /\ Len(last.tasks) = Len(last.tree.steps)
    /\ Unjoined(last.tasks, "Command") = {}
    /\ Unjoined(last.tasks, "Workflow") = {}
    /\ ParallelStep(ParallelRun("execute_returns", last.tree, last.map,
           last.tasks, last.done, "Ok"))

NextParallel ==
    \/ spawn
    \/ task_completes
    \/ join_next_command
    \/ join_next_workflow
    \/ execute_returns

SpecParallel == InitParallel /\ [][NextParallel]_vars

(***************************************************************************)
(* The reply subscription of the veritech client (client.rs): a stream     *)
(* over a NATS subscription.  Each poll_next polls the inner subscription  *)
(* once; what the inner subscription yields is drawn per poll, and once it *)
(* has closed it stays closed.                                             *)
(***************************************************************************)
MaxPolls == 3
NumPayloads == 2

\* FINAL_MESSAGE_HEADER_KEY, and another header key
FinalMessageHeaderKey == "X-Final-Message"
HeaderKeys == {FinalMessageHeaderKey, "X-Other"}

\* nats_msg.headers(): None, or Some(headers) with the keys given
NoHeaders == [present |-> FALSE, keys |-> {}]
SomeHeaders(keys) == [present |-> TRUE, keys |-> keys]
MessageHeaders == {NoHeaders} \cup {SomeHeaders(keys) : keys \in SUBSET HeaderKeys}

\* the data of a message: 0 is not the JSON of a T, v > 0 is the JSON of
\* the value v
MessageData == 0..NumPayloads

NatsMessage(headers, data) == [headers |-> headers, data |-> data]
NoMessage == NatsMessage(NoHeaders, 0)

\* what this.inner.next().poll(cx) yields
InnerPoll(kind, msg) == [kind |-> kind, msg |-> msg]
InnerPolls ==
    {InnerPoll("Message", NatsMessage(h, d)) : h \in MessageHeaders, d \in MessageData}
    \cup {InnerPoll(kind, NoMessage) : kind \in {"NatsError", "Closed", "Pending"}}

\* what poll_next returns: Pending, Ready(None), Ready(Some(Ok(msg))) or
\* Ready(Some(Err(err)))
PollPending == [poll |-> "Pending", item |-> "None", value |-> 0]
PollReadyNone == [poll |-> "Ready", item |-> "None", value |-> 0]
PollReadyOk(value) == [poll |-> "Ready", item |-> "Ok", value |-> value]
PollReadyErr(err) == [poll |-> "Ready", item |-> err, value |-> 0]

\* the message carries a header whose key is the final message key
HasOnlyFinalMessageHeader(msg) ==
    msg.headers.present /\ msg.headers.keys = {FinalMessageHeaderKey}
HasFinalMessageHeader(msg) ==
    msg.headers.present
    /\ \E key \in msg.headers.keys : key = FinalMessageHeaderKey

\* serde_json::from_slice::<T>(&data)
FromSlice(data) ==
    IF data = 0 THEN [res |-> "Err", value |-> 0] ELSE [res |-> "Ok", value |-> data]

\* Subscription::poll_next, given what the inner subscription yields
PollNext(inner) ==
    IF inner.kind = "Message"
    THEN IF HasFinalMessageHeader(inner.msg) THEN PollReadyNone
         ELSE IF FromSlice(inner.msg.data).res = "Ok"
         THEN PollReadyOk(FromSlice(inner.msg.data).value)
         ELSE PollReadyErr("JSONDeserialize")
    ELSE IF inner.kind = "NatsError" THEN PollReadyErr("NatsIo")
    ELSE IF inner.kind = "Closed"
    THEN PollReadyErr("UnexpectedNatsSubscriptionClosed")
    ELSE PollPending

(***************************************************************************)
(* The subscription specification: the stream is polled up to MaxPolls     *)
(* times.  last holds what the inner subscription yielded to the last      *)
(* poll, what the poll returned, everything returned so far, and whether   *)
(* the inner subscription has closed.                                      *)
(***************************************************************************)
SubscriptionCall(op, inner, ret, returned, yielded, closed) ==
    [op |-> op, inner |-> inner, ret |-> ret, returned |-> returned,
     yielded |-> yielded, closed |-> closed]

InitSubscription ==
    /\ last = SubscriptionCall("new", InnerPoll("Pending", NoMessage), PollPending,
                               <<>>, <<>>, FALSE)
    /\ graph = EmptyGraph
    /\ other = EmptyGraph
    /\ change_set = 1
    /\ nextId = 0
    /\ calls = 0

poll_next ==
    /\ calls < MaxPolls
    /\ \E inner \in InnerPolls :
          /\ last.closed => inner.kind = "Closed"
          /\ \E ret \in {PollNext(inner)} :
                last' = SubscriptionCall("poll_next", inner, ret,
                            Append(last.returned, ret),
                            Append(last.yielded, inner),
                            last.closed \/ inner.kind = "Closed")
    /\ calls' = calls + 1
    /\ UNCHANGED <<graph, other, change_set, nextId>>

NextSubscription == poll_next

SpecSubscription == InitSubscription /\ [][NextSubscription]_vars

(***************************************************************************)
(* The membership specification: the two container comparisons applied to  *)
(* a pair of containers whose clocks are drawn.  Each snapshot is a        *)
(* container, the root, with NumItems item nodes and, for an ordered       *)
(* container, an ordering node.  An item the container holds has an edge   *)
(* whose first seen entry for onto's change set is drawn and a write entry *)
(* for the change set of its side that is drawn; the root of to_rebase has *)
(* a drawn recently seen entry for onto's change set.                      *)
(***************************************************************************)
NumItems == 2
MaxEntry == 2

ItemIds == 1..NumItems

ContainerIndex == 0
OrderingIndex == NumItems + 1

\* a vector clock with the entries given for onto's and to_rebase's change
\* sets and no other entry
VectorClockOf(onto_entry, to_rebase_entry) ==
    [c \in ChangeSets |->
        IF c = OntoChangeSet THEN onto_entry
        ELSE IF c = ToRebaseChangeSet THEN to_rebase_entry ELSE Absent]

\* an item of a container: whether the container has an edge to it, the
\* first seen entry of the edge for onto's change set and the item's write
\* entry for the change set of its side
ContainerItem(present, first_seen, write) ==
    [present |-> present, first_seen |-> first_seen, write |-> write]

NoItem == ContainerItem(FALSE, Absent, Absent)

\* to_rebase's items: onto has seen the edge or not, to_rebase has written
\* the item or not
ToRebaseItems ==
    {NoItem} \cup {ContainerItem(TRUE, f, w) :
                      f \in {Absent, 1}, w \in {Absent} \cup 1..MaxEntry}

\* onto's items: the edge may lack a first seen entry for onto's change set
OntoItems ==
    {NoItem} \cup {ContainerItem(TRUE, f, w) :
                      f \in {Absent} \cup 1..MaxEntry, w \in 1..MaxEntry}

\* the ordering of a container: none, or an order and a write clock
ContainerOrdering(present, order, write) ==
    [present |-> present, order |-> order, write |-> write]

NoOrdering == ContainerOrdering(FALSE, <<>>, VectorClockEmpty)

MembershipOrders == {<<1>>, <<2>>, <<1, 2>>, <<2, 1>>}

\* the snapshot of one side: the container at ContainerIndex, item i at
\* index i, the ordering node at OrderingIndex
ContainerSnapshot(side, root_seen, items, ordering) ==
    LET cs == SideChangeSet(side)
        root == [NewContent(OntoChangeSet, 0, "Root", RootHash) EXCEPT
                    !.vector_clock_recently_seen = VectorClockOf(root_seen, Absent)]
        item(i) == [NewContent(OntoChangeSet, i, "Component", i) EXCEPT
                       !.merkle_tree_hash = HasherFinalize(<<i>>),
                       !.vector_clock_write =
                           IF side = "onto" THEN VectorClockOf(items[i].write, Absent)
                           ELSE VectorClockOf(0, items[i].write)]
        ordering_node ==
            IF ordering.present
            THEN [NewOrdering(OntoChangeSet, OrderingIndex, ordering.order) EXCEPT
                     !.merkle_tree_hash =
                         HasherFinalize(<<OrderHash(ordering.order)>>),
                     !.vector_clock_write = ordering.write]
            ELSE NoNode
        edge(i) == [w |-> [kind |-> "Uses",
                           vector_clock_seen |->
                               VectorClockOf(items[i].first_seen,
                                   IF side = "onto" THEN Absent ELSE 1),
                           vector_clock_write |->
                               VectorClockOf(items[i].first_seen,
                                   IF side = "onto" THEN Absent ELSE 1)],
                    to |-> i]
        ordering_edge == [w |-> EdgeWeightNew(OntoChangeSet, OrderingKind),
                          to |-> OrderingIndex]
        held == SortedSeq({i \in ItemIds : items[i].present})
        g == [nodes |-> [n \in 0..OrderingIndex |->
                            IF n = ContainerIndex THEN root
                            ELSE IF n = OrderingIndex THEN ordering_node
                            ELSE item(n)],
              out |-> [n \in 0..OrderingIndex |->
                          IF n = ContainerIndex
                          THEN [k \in 1..Len(held) |-> edge(held[k])]
                               \o (IF ordering.present THEN <<ordering_edge>>
                                   ELSE <<>>)
                          ELSE <<>>],
              bound |-> OrderingIndex + 1,
              free |-> IF ordering.present THEN <<>> ELSE <<OrderingIndex>>,
              root |-> ContainerIndex]
    IN UpdateMerkleTreeHash(g, ContainerIndex)

MembershipCall(op, res, conflicts, updates) ==
    [op |-> op, res |-> res, conflicts |-> conflicts, updates |-> updates,
     examined |-> <<>>, log |-> <<>>]

\* two unordered containers
InitUnordered ==
    \E root_seen \in {Absent, 1} :
       \E to_rebase_items \in [ItemIds -> ToRebaseItems],
          onto_items \in [ItemIds -> OntoItems] :
          /\ graph = ContainerSnapshot("to_rebase", root_seen, to_rebase_items,
                                       NoOrdering)
          /\ other = ContainerSnapshot("onto", 0, onto_items, NoOrdering)

\* two ordered containers: a container holds the items of its order
InitOrdered ==
    \E root_seen \in {Absent, 1} :
       \E to_rebase_order \in MembershipOrders, onto_order \in MembershipOrders,
          to_rebase_write \in {VectorClockOf(1, Absent), VectorClockOf(1, 1)},
          onto_write \in {VectorClockOf(1, Absent), VectorClockOf(2, Absent)} :
          \E to_rebase_items \in [ItemIds -> ToRebaseItems],
             onto_items \in [ItemIds -> OntoItems] :
             /\ \A i \in ItemIds :
                   /\ to_rebase_items[i].present <=> i \in Range(to_rebase_order)
                   /\ onto_items[i].present <=> i \in Range(onto_order)
             /\ graph = ContainerSnapshot("to_rebase", root_seen, to_rebase_items,
                            ContainerOrdering(TRUE, to_rebase_order, to_rebase_write))
             /\ other = ContainerSnapshot("onto", 0, onto_items,
                            ContainerOrdering(TRUE, onto_order, onto_write))

InitMembership ==
    /\ InitUnordered \/ InitOrdered
    /\ last = MembershipCall("new", "Ok", <<>>, <<>>)
    /\ change_set = ToRebaseChangeSet
    /\ nextId = OrderingIndex + 1
    /\ calls = 0

\* to_rebase.find_unordered_container_membership_conflicts_and_updates on
\* the two containers
find_unordered_container_membership_conflicts_and_updates ==
    /\ last.op = "new"
    /\ OrderingNodeIndexesForNodeIndex(graph, ContainerIndex) = <<>>
    /\ OrderingNodeIndexesForNodeIndex(other, ContainerIndex) = <<>>
    /\ \E hash_order \in HashIterationOrders :
          \E r \in {FindUnorderedContainerMembershipConflictsAndUpdates(
                        graph, ToRebaseChangeSet, ContainerIndex,
                        other, OntoChangeSet, ContainerIndex, hash_order)} :
             last' = MembershipCall(
                         "find_unordered_container_membership_conflicts_and_updates",
                         "Ok", r.conflicts, r.updates)
    /\ calls' = calls + 1
    /\ UNCHANGED <<graph, other, change_set, nextId>>

\* to_rebase.find_ordered_container_membership_conflicts_and_updates on the
\* two containers and their ordering nodes
find_ordered_container_membership_conflicts_and_updates ==
    /\ last.op = "new"
    /\ OrderingNodeIndexesForNodeIndex(graph, ContainerIndex) # <<>>
    /\ OrderingNodeIndexesForNodeIndex(other, ContainerIndex) # <<>>
    /\ \E hash_order \in HashIterationOrders :
          \E r \in {FindOrderedContainerMembershipConflictsAndUpdates(
                        graph, ToRebaseChangeSet, ContainerIndex, OrderingIndex,
                        other, OntoChangeSet, ContainerIndex, OrderingIndex,
                        hash_order)} :
             last' = MembershipCall(
                         "find_ordered_container_membership_conflicts_and_updates",
                         r.res, r.conflicts, r.updates)
    /\ calls' = calls + 1
    /\ UNCHANGED <<graph, other, change_set, nextId>>

\* the comparisons alone, or the whole detection on the two snapshots
NextMembership ==
    \/ find_unordered_container_membership_conflicts_and_updates
    \/ find_ordered_container_membership_conflicts_and_updates
    \/ detect_conflicts_and_updates

SpecMembership == InitMembership /\ [][NextMembership]_vars

(***************************************************************************)
(* The Conditional arm of execute, step by step.  The loop over self.steps *)
(* awaits each step before it turns to the next one: a command's           *)
(* execute_critical_section, or the execute of a nested workflow.  A       *)
(* nested Conditional workflow is followed step by step in a frame of its  *)
(* own, on a clone of the map; a nested workflow of another kind is one    *)
(* awaited call.  events is the record of the steps started and ended.     *)
(***************************************************************************)
\* the trees whose execute takes the Conditional arm
ConditionalTrees ==
    {tree \in WorkflowTrees : tree.kind = "Conditional"}
    \cup {WorkflowTree(1, "Conditional",
              <<WorkflowTree(2, "Conditional", <<TreeCommand(1), TreeCommand(2)>>),
                TreeCommand(3)>>),
          WorkflowTree(1, "Conditional",
              <<TreeCommand(1),
                WorkflowTree(2, "Exceptional", <<TreeCommand(2)>>),
                TreeCommand(3)>>),
          WorkflowTree(1, "Conditional",
              <<TreeCommand(1),
                WorkflowTree(2, "Conditional",
                    <<TreeCommand(1),
                      WorkflowTree(3, "Conditional", <<TreeCommand(2)>>)>>),
                TreeCommand(2)>>)}

\* a call of execute in the Conditional arm: its steps, the step the loop
\* is at, its map, and whether it awaits that step
Frame(steps, k, map, awaiting) ==
    [steps |-> steps, k |-> k, map |-> map, awaiting |-> awaiting]

\* the innermost call of execute
Top(frames) == frames[Len(frames)]

SetTop(frames, frame) == [frames EXCEPT ![Len(frames)] = frame]

\* the place of the current step of the innermost call in the tree
StepPath(frames) == [d \in 1..Len(frames) |-> frames[d].k]

StepEvent(ev, path, res) == [ev |-> ev, path |-> path, res |-> res]

ConditionalRun(op, tree, frames, events, res) ==
    [op |-> op, tree |-> tree, frames |-> frames, events |-> events, res |-> res]

\* the loop comes to a step: a command that was not prepared ends the call,
\* a command or a nested workflow is started and awaited
StepStarts(run) ==
    LET top == Top(run.frames)
        step == top.steps[top.k]
        awaited == SetTop(run.frames, Frame(top.steps, top.k, top.map, TRUE))
        started == Append(run.events, StepEvent("start", StepPath(run.frames), "Ok"))
    IN IF step.type = "Command" /\ step.func_binding \notin DOMAIN top.map
       THEN ConditionalRun("step_starts", run.tree, run.frames, run.events,
                           "CommandNotPrepared")
       ELSE IF step.type = "Workflow" /\ step.kind = "Conditional"
       THEN ConditionalRun("step_starts", run.tree,
                Append(awaited, Frame(step.steps, 1, top.map, FALSE)),
                started, "Running")
       ELSE ConditionalRun("step_starts", run.tree, awaited, started, "Running")

\* the awaited step of the innermost call has returned r and the `?` lets
\* the error through: the loop goes on
StepReturnedSwallowsError(run, frames, r, map) ==
    LET top == Top(frames)
        ended == Append(run.events, StepEvent("end", StepPath(frames), r.res))
    IN ConditionalRun("step_returns", run.tree,
           SetTop(frames, Frame(top.steps, top.k + 1,
                                IF r.res = "Ok" THEN map ELSE top.map, FALSE)),
           ended, "Running")

\* the awaited step of the innermost call has returned r: an error ends
\* every call of execute on the way up (`?`), else the map is updated and
\* the loop goes on
StepReturned(run, frames, r, map) ==
    LET top == Top(frames)
        ended == Append(run.events, StepEvent("end", StepPath(frames), r.res))
    IN IF r.res # "Ok"
       THEN ConditionalRun("step_returns", run.tree, frames, ended, r.res)
       ELSE ConditionalRun("step_returns", run.tree,
                SetTop(frames, Frame(top.steps, top.k + 1, map, FALSE)),
                ended, "Running")

InitConditional ==
    /\ \E tree \in ConditionalTrees :
          \E p \in {Prepare(tree)} :
             last = ConditionalRun("prepare", tree,
                        <<Frame(tree.steps, 1, p.map, FALSE)>>, <<>>, "Running")
    /\ graph = EmptyGraph
    /\ other = EmptyGraph
    /\ change_set = 1
    /\ nextId = 0
    /\ calls = 0

ConditionalStep(run) ==
    /\ last' = run
    /\ calls' = calls + 1
    /\ UNCHANGED <<graph, other, change_set, nextId>>

\* one turn of `for step in self.steps`, up to the await
step_starts ==
    /\ last.res = "Running"
    /\ ~Top(last.frames).awaiting
    /\ Top(last.frames).k <= Len(Top(last.frames).steps)
    /\ ConditionalStep(StepStarts(last))

\* the awaited command, or the awaited nested workflow of another kind,
\* returns
step_returns ==
    /\ last.res = "Running"
    /\ Top(last.frames).awaiting
    /\ \E top \in {Top(last.frames)} :
          \E step \in {top.steps[top.k]} :
             IF step.type = "Command"
             THEN \E o \in CommandOutcomes :
                     ConditionalStep(StepReturned(last, last.frames, o,
                         SetValue(top.map, step.func_binding, o.value)))
             ELSE \E outcome \in [FuncBindingIds -> CommandOutcomes],
                     order \in CompletionOrders :
                     \E r \in {Execute(step, top.map, outcome, order)} :
                        ConditionalStep(StepReturned(last, last.frames, r,
                            MapExtend(top.map, r.map)))

\* the loop of a call has ended: Ok(map); the call that awaits it extends
\* its map with the result
workflow_returns ==
    /\ last.res = "Running"
    /\ ~Top(last.frames).awaiting
    /\ Top(last.frames).k > Len(Top(last.frames).steps)
    /\ IF Len(last.frames) = 1
       THEN ConditionalStep(ConditionalRun("workflow_returns", last.tree,
                last.frames, last.events, "Ok"))
       ELSE \E below \in {SubSeq(last.frames, 1, Len(last.frames) - 1)} :
               ConditionalStep(StepReturned(last, below,
                   ExecuteOk(Top(last.frames).map),
                   MapExtend(Top(below).map, Top(last.frames).map)))

NextConditional ==
    \/ step_starts
    \/ step_returns
    \/ workflow_returns

SpecConditional == InitConditional /\ [][NextConditional]_vars

(***************************************************************************)
(* A request of the veritech client (client.rs): execute_request           *)
(* subscribes to the two reply mailboxes, spawns the output forwarder,     *)
(* publishes the request and waits for one result.  The executor behind    *)
(* NATS is not part of the repository: once a request has reached it, it   *)
(* publishes output messages, a final message and a result to the reply    *)
(* mailboxes, and a message published to a subject nobody has subscribed   *)
(* to is lost.  A subscription may close at any time.  The forwarder       *)
(* passes the output on to a bounded channel the caller receives from.     *)
(***************************************************************************)
MaxOutputs == 2
ChannelCapacity == 1

\* the steps of execute_request, in the order of its statements
ExecuteRequestPublishesFirst ==
    <<"publish", "subscribe_result", "subscribe_output", "spawn",
      "try_next", "unsubscribe">>
ExecuteRequestSteps ==
    <<"subscribe_result", "subscribe_output", "spawn", "publish",
      "try_next", "unsubscribe">>

\* the message that ends a reply stream, and a message with a payload
FinalMessage == NatsMessage(SomeHeaders({FinalMessageHeaderKey}), 0)
PayloadMessage(data) == NatsMessage(NoHeaders, data)

\* nats::Subscription: not subscribed yet, open or closed, with the
\* messages it has received and not handed out
NatsSubscription(status, queue) == [status |-> status, queue |-> queue]
NotSubscribed == NatsSubscription("none", <<>>)

\* publish to the subject of a subscription: a subject without an open
\* subscription loses the message
Publish(sub, msg) ==
    IF sub.status = "open"
    THEN NatsSubscription(sub.status, Append(sub.queue, msg))
    ELSE sub

\* this.inner.next().poll(cx) of a subscription: the oldest message, the
\* end of a closed subscription, or Pending
InnerNext(sub) ==
    IF sub.queue # <<>> THEN InnerPoll("Message", Head(sub.queue))
    ELSE IF sub.status = "closed" THEN InnerPoll("Closed", NoMessage)
    ELSE InnerPoll("Pending", NoMessage)

\* the subscription once the poll has taken its message
AfterNext(sub) ==
    IF sub.queue # <<>> THEN NatsSubscription(sub.status, Tail(sub.queue))
    ELSE sub

\* forward_output_task after output_subscription.next() returned ret: the
\* loop ends on None, sends an output and logs an error
ForwardNext(ret) ==
    IF ret.item = "None" THEN "unsubscribe"
    ELSE IF ret.item = "Ok" THEN "send"
    ELSE "warn"

\* the state of a request: where execute_request is and what it returned,
\* the two subscriptions, what the executor has done, where the forwarder
\* is, the output it holds, the channel and its two ends
ClientRequest(op, step, res, result, output, executor, early, task, held, channel, ends) ==
    [op |-> op, step |-> step, res |-> res, result |-> result, output |-> output,
     executor |-> executor, early |-> early, task |-> task, held |-> held,
     channel |-> channel, ends |-> ends]

\* the executor: whether the request has reached it, the outputs it has
\* published, whether it has published the final message and the result
Executor(requested, outputs, final, result) ==
    [requested |-> requested, outputs |-> outputs, final |-> final, result |-> result]

\* the ends of the output channel: the forwarder's sender dropped, the
\* receiver dropped, end-of-channel observed by the receiver
ChannelEnds(tx_dropped, rx_dropped, eoc) ==
    [tx_dropped |-> tx_dropped, rx_dropped |-> rx_dropped, eoc |-> eoc]

InitClient ==
    /\ last = ClientRequest("execute_request", 1, "Running", NotSubscribed,
                  NotSubscribed, Executor(FALSE, 0, FALSE, FALSE), {}, "none", 0,
                  <<>>, ChannelEnds(FALSE, FALSE, FALSE))
    /\ graph = EmptyGraph
    /\ other = EmptyGraph
    /\ change_set = 1
    /\ nextId = 0
    /\ calls = 0

ClientStep(run) ==
    /\ last' = run
    /\ UNCHANGED <<graph, other, change_set, nextId, calls>>

\* execute_request is at the step named
AtStep(name) ==
    /\ last.res = "Running"
    /\ last.step <= Len(ExecuteRequestSteps)
    /\ ExecuteRequestSteps[last.step] = name

\* the step returned Ok (the next statement is reached) or the `?` returns
\* the error
StepDone(op, ok, err, result, output, executor, task) ==
    ClientRequest(op, IF ok THEN last.step + 1 ELSE last.step,
        IF ~ok THEN err
        ELSE IF last.step = Len(ExecuteRequestSteps) THEN "Ok" ELSE "Running",
        result, output, executor, last.early, task, last.held, last.channel,
        last.ends)

\* self.nats.subscribe(result_subscription_subject).await?
subscribe_result ==
    /\ AtStep("subscribe_result")
    /\ \E ok \in BOOLEAN :
          ClientStep(StepDone("subscribe_result", ok, "Nats",
              IF ok THEN NatsSubscription("open", <<>>) ELSE last.result,
              last.output, last.executor, last.task))

\* self.nats.subscribe(output_subscription_subject).await?
subscribe_output ==
    /\ AtStep("subscribe_output")
    /\ \E ok \in BOOLEAN :
          ClientStep(StepDone("subscribe_output", ok, "Nats", last.result,
              IF ok THEN NatsSubscription("open", <<>>) ELSE last.output,
              last.executor, last.task))

\* tokio::spawn(forward_output_task(output_subscription, output_tx))
spawn_forward_output_task ==
    /\ AtStep("spawn")
    /\ ClientStep(StepDone("spawn_forward_output_task", TRUE, "Nats", last.result,
           last.output, last.executor, "next"))

\* self.nats.publish_with_reply_or_headers(..).await?: the request reaches
\* the executor
publish_with_reply_or_headers ==
    /\ AtStep("publish")
    /\ \E ok \in BOOLEAN :
          ClientStep(StepDone("publish_with_reply_or_headers", ok, "Nats",
              last.result, last.output,
              IF ok THEN Executor(TRUE, last.executor.outputs, last.executor.final,
                                  last.executor.result)
              ELSE last.executor,
              last.task))

\* result_subscription.try_next().await?.ok_or(ClientError::NoResult)?
try_next ==
    /\ AtStep("try_next")
    /\ \E ret \in {PollNext(InnerNext(last.result))} :
          /\ ret.poll = "Ready"
          /\ ClientStep(StepDone("try_next", ret.item = "Ok",
                 IF ret.item = "None" THEN "NoResult" ELSE "Result",
                 AfterNext(last.result), last.output, last.executor, last.task))

\* result_subscription.unsubscribe().await?
unsubscribe ==
    /\ AtStep("unsubscribe")
    /\ \E ok \in BOOLEAN :
          ClientStep(StepDone("unsubscribe", ok, "NatsUnsubscribe",
              IF ok THEN NatsSubscription("closed", <<>>) ELSE last.result,
              last.output, last.executor, last.task))

\* a reply was published to a subject that had never been subscribed to
PublishedEarly(sub, kind) ==
    IF sub.status = "none" THEN last.early \cup {kind} ELSE last.early

\* the executor, having the request, publishes an output message, the
\* final message of the output, or the result
executor_publishes ==
    /\ last.executor.requested
    /\ \/ /\ last.executor.outputs < MaxOutputs
          /\ ~last.executor.final
          /\ \E data \in MessageData :
                ClientStep([last EXCEPT
                    !.op = "executor_publishes",
                    !.output = Publish(last.output, PayloadMessage(data)),
                    !.early = PublishedEarly(last.output, "output"),
                    !.executor = Executor(TRUE, last.executor.outputs + 1,
                                     FALSE, last.executor.result)])
       \/ /\ ~last.executor.final
          /\ ClientStep([last EXCEPT
                 !.op = "executor_publishes",
                 !.output = Publish(last.output, FinalMessage),
                 !.early = PublishedEarly(last.output, "output"),
                 !.executor = Executor(TRUE, last.executor.outputs, TRUE,
                                  last.executor.result)])
       \/ /\ ~last.executor.result
          /\ \E data \in MessageData :
                ClientStep([last EXCEPT
                    !.op = "executor_publishes",
                    !.result = Publish(last.result, PayloadMessage(data)),
                    !.early = PublishedEarly(last.result, "result"),
                    !.executor = Executor(TRUE, last.executor.outputs,
                                     last.executor.final, TRUE)])

\* the output subscription closes, with or without the final message seen
subscription_closes ==
    /\ last.output.status = "open"
    /\ ClientStep([last EXCEPT
           !.op = "subscription_closes",
           !.output = NatsSubscription("closed", last.output.queue)])

\* forward_output_task: output_subscription.next().await returns
forward_next ==
    /\ last.task = "next"
    /\ \E ret \in {PollNext(InnerNext(last.output))} :
          /\ ret.poll = "Ready"
          /\ ClientStep([last EXCEPT
                 !.op = "forward_next",
                 !.output = AfterNext(last.output),
                 !.task = ForwardNext(ret),
                 !.held = ret.value])

\* forward_output_task: output_tx.send(output).await returns, Ok when the
\* channel took the output, Err when the receiver is gone; a full channel
\* keeps the sender waiting
forward_send ==
    /\ last.task = "send"
    /\ \/ /\ last.ends.rx_dropped
          /\ ClientStep([last EXCEPT !.op = "forward_send", !.task = "warn",
                                     !.held = 0])
       \/ /\ ~last.ends.rx_dropped
          /\ Len(last.channel) < ChannelCapacity
          /\ ClientStep([last EXCEPT !.op = "forward_send", !.task = "next",
                                     !.held = 0,
                                     !.channel = Append(last.channel, last.held)])

\* forward_output_task: warn!(..), and the loop goes on
forward_warn ==
    /\ last.task = "warn"
    /\ ClientStep([last EXCEPT !.op = "forward_warn", !.task = "next"])

\* forward_output_task: the loop has ended, output_subscription
\* .unsubscribe().await, and the task returns, dropping output_tx
forward_unsubscribe ==
    /\ last.task = "unsubscribe"
    /\ ClientStep([last EXCEPT
           !.op = "forward_unsubscribe",
           !.task = "done",
           !.output = NatsSubscription("closed", <<>>),
           !.ends = ChannelEnds(TRUE, last.ends.rx_dropped, last.ends.eoc)])

\* the caller receives from the output channel: an output, or None once
\* the channel is empty and the sender dropped
output_recv ==
    /\ ~last.ends.rx_dropped
    /\ ~last.ends.eoc
    /\ \/ /\ last.channel # <<>>
          /\ ClientStep([last EXCEPT !.op = "output_recv",
                                     !.channel = Tail(last.channel)])
       \/ /\ last.channel = <<>>
          /\ last.ends.tx_dropped
          /\ ClientStep([last EXCEPT
                 !.op = "output_recv",
                 !.ends = ChannelEnds(TRUE, FALSE, TRUE)])

\* the caller drops the receiver without draining it
receiver_dropped ==
    /\ ~last.ends.rx_dropped
    /\ ~last.ends.eoc
    /\ ClientStep([last EXCEPT
           !.op = "receiver_dropped",
           !.channel = <<>>,
           !.ends = ChannelEnds(last.ends.tx_dropped, TRUE, FALSE)])

ForwardOutputTask ==
    \/ forward_next
    \/ forward_send
    \/ forward_warn
    \/ forward_unsubscribe

NextClient ==
    \/ subscribe_result
    \/ subscribe_output
    \/ spawn_forward_output_task
    \/ publish_with_reply_or_headers
    \/ try_next
    \/ unsubscribe
    \/ executor_publishes
    \/ subscription_closes
    \/ ForwardOutputTask
    \/ output_recv
    \/ receiver_dropped

SpecClient == InitClient /\ [][NextClient]_vars

\* the runtime runs the forwarder whenever it can go on, and the caller
\* receives from the channel whenever there is something to receive
SpecClientFair ==
    /\ SpecClient
    /\ WF_vars(ForwardOutputTask)
    /\ WF_vars(output_recv)

(***************************************************************************)
(* Properties.                                                             *)
(***************************************************************************)
\* the nodes root_index reaches
Reachable(g) == Reach(g, g.root)

\* the stored nodes no path from root_index leads to
Stale(g) == NodeIndices(g) \ Reachable(g)

\* an edge from -> to would close a directed cycle: to already leads to from
WouldCloseCycle(g, from, to) == from \in Reach(g, to)

\* the same nodes with the same weights (merkle hashes included), the same
\* edges with the same weights, the same root_index
SameSnapshot(g, h) ==
    /\ NodeIndices(g) = NodeIndices(h)
    /\ \A n \in NodeIndices(g) : g.nodes[n] = h.nodes[n] /\ g.out[n] = h.out[n]
    /\ g.root = h.root

\* C1: an add_edge(cs, from, w, to) whose edge would close a directed cycle
\* (from = to included) returns CreateGraphCycle and leaves the snapshot as
\* it was: same nodes, same edges and weights, same merkle hashes, same
\* root_index.
C1_CycleRejectedUnchanged ==
    [][(last'.op = "add_edge" /\ WouldCloseCycle(graph, last'.a, last'.b))
          => (last'.res = "CreateGraphCycle" /\ SameSnapshot(graph, graph'))]_vars

C1_Witness ==
    /\ last.op = "add_edge"
    /\ last.res = "CreateGraphCycle"
    /\ last.a # last.b
    /\ Len(graph.out[last.b]) > 0

\* a directed path of one edge or more from n back to n
OnCycle(g, n) == \E m \in Neighbors(g, n) : n \in Reach(g, m)

\* C2: after any sequence of calls, failed ones included, the whole stored
\* graph, stale copies included, has no directed cycle.
C2_StoredGraphAcyclic == \A n \in NodeIndices(graph) : ~OnCycle(graph, n)

C2_Witness ==
    /\ last.op = "add_edge"
    /\ last.res = "Ok"
    /\ Stale(graph) # {}
    /\ \E n \in Reachable(graph) : Len(graph.out[n]) >= 2

\* the hash update_merkle_tree_hash would give node n now: its content hash
\* followed by the merkle hashes of its out-neighbours in sorted order
FreshMerkleTreeHash(g, n) == UpdateMerkleTreeHash(g, n).nodes[n].merkle_tree_hash

\* C3: after any sequence of calls, every node root_index reaches carries the
\* merkle hash of its own content hash followed by the merkle hashes of its
\* current out-neighbours in sorted order.
C3_ReachableHashesFresh ==
    \A n \in Reachable(graph) :
        graph.nodes[n].merkle_tree_hash = FreshMerkleTreeHash(graph, n)

\* the ids of the nodes root_index reaches
ReachableIds(g) == {g.nodes[n].id : n \in Reachable(g)}

\* the edges below root_index, by the ids of their ends and their kind
EdgesById(g) ==
    UNION {{<<g.nodes[n].id, g.nodes[g.out[n][k].to].id, g.out[n][k].w.kind>> :
               k \in DOMAIN g.out[n]} : n \in Reachable(g)}

\* the same nodes with the same content hashes and the same edges
SameNodesAndEdges(g, h) ==
    /\ ReachableIds(g) = ReachableIds(h)
    /\ \A n \in Reachable(g), m \in Reachable(h) :
          g.nodes[n].id = h.nodes[m].id => g.nodes[n].content_hash = h.nodes[m].content_hash
    /\ EdgesById(g) = EdgesById(h)

\* C4: two snapshots built from the same nodes and the same edges, added in
\* whatever order, have equal merkle hashes at their roots and at every pair
\* of corresponding nodes.
C4_HashIndependentOfInsertionOrder ==
    SameNodesAndEdges(graph, other) =>
        \A n \in Reachable(graph), m \in Reachable(other) :
            graph.nodes[n].id = other.nodes[m].id =>
                graph.nodes[n].merkle_tree_hash = other.nodes[m].merkle_tree_hash

\* the subgraphs below n and m are identical: the same content hash, the same
\* number of children and, child by child in the order the hasher takes them,
\* the same edge kind and an identical subgraph
RECURSIVE SubgraphsIdentical(_, _, _)
SubgraphsIdentical(g, n, m) ==
    LET a == SortedSeq(Neighbors(g, n))
        b == SortedSeq(Neighbors(g, m))
    IN /\ g.nodes[n].content_hash = g.nodes[m].content_hash
       /\ Len(a) = Len(b)
       /\ \A k \in 1..Len(a) :
             /\ EdgeWeightOf(g, n, a[k]).kind = EdgeWeightOf(g, m, b[k]).kind
             /\ SubgraphsIdentical(g, a[k], b[k])

\* C5: the digest being collision free, two nodes of a snapshot with equal
\* merkle hashes have identical subgraphs below them: the same content hash
\* at corresponding nodes, the same number of children, the same edge kinds.
C5_EqualHashIdenticalSubgraph ==
    \A n \in Reachable(graph), m \in Reachable(graph) :
        graph.nodes[n].merkle_tree_hash = graph.nodes[m].merkle_tree_hash
            => SubgraphsIdentical(graph, n, m)

\* the node the call recorded in l writes to, in the snapshot g before it
MutationTarget(g, l) ==
    IF l.op = "add_edge" THEN l.a ELSE GetNodeIndexById(g, l.a)

\* the nodes on some path from root_index to target, both ends included
OnPathToTarget(g, target) ==
    {n \in Reachable(g) : target \in Reach(g, n)}

\* node c of h is a copy of node p of g: the same weight but for the hashes
\* and the write clock, which a copy renews
IsCopyOf(h, c, g, p) ==
    /\ h.nodes[c].kind = g.nodes[p].kind
    /\ h.nodes[c].addr = g.nodes[p].addr
    /\ h.nodes[c].id = g.nodes[p].id
    /\ h.nodes[c].lineage_id = g.nodes[p].lineage_id
    /\ h.nodes[c].vector_clock_recently_seen = g.nodes[p].vector_clock_recently_seen

\* C6: an add_edge or update_content that writes to a node root_index reaches
\* copies exactly the nodes on a path from the old root to that node, each
\* once (the nodes the call adds to the graph are the copies, one per node
\* of those paths); every other node the new root reaches is a node of the
\* old snapshot, off those paths, with its weight and edges as they were.
C6_CopiesExactlyThePath ==
    [][(/\ last'.op \in {"add_edge", "update_content"}
        /\ last'.res = "Ok"
        /\ MutationTarget(graph, last') \in Reachable(graph))
          => LET path == OnPathToTarget(graph, MutationTarget(graph, last'))
                 created == NodeIndices(graph') \ NodeIndices(graph)
             IN /\ {pr[1] : pr \in last'.copies} = path
                /\ {pr[2] : pr \in last'.copies} = created
                /\ Cardinality(created) = Cardinality(path)
                /\ \A pr \in last'.copies : IsCopyOf(graph', pr[2], graph, pr[1])
                /\ created \subseteq Reachable(graph')
                /\ \A n \in Reachable(graph') \ created :
                      /\ n \in NodeIndices(graph) \ path
                      /\ graph'.nodes[n] = graph.nodes[n]
                      /\ graph'.out[n] = graph.out[n]]_vars

C6_Witness ==
    /\ last.op = "update_content"
    /\ last.res = "Ok"
    /\ last.ret \in Reachable(graph) \ {graph.root}
    /\ \E n \in Reachable(graph) \ {graph.root, last.ret} :
          n \notin Reach(graph, last.ret)

\* C7: after cleanup() every node left in the graph is reachable from
\* root_index, whatever the calls before it.
C7_CleanupLeavesReachableOnly ==
    last.op = "cleanup" => NodeIndices(graph) \subseteq Reachable(graph)

\* a cleanup took nodes out: a slot above every remaining node is vacant
C7_Witness ==
    /\ last.op = "cleanup"
    /\ Cardinality(NodeIndices(graph)) >= 2
    /\ \E k \in 1..Len(graph.free) : \A n \in NodeIndices(graph) : graph.free[k] > n

\* C8: after update_content(cs, id, h) succeeds, get_node_index_by_id(id)
\* returns a node the new root reaches whose content hash is h, and the node
\* that carried id before is no longer reachable from the root.
C8_UpdateContentReplacesNode ==
    [][(last'.op = "update_content" /\ last'.res = "Ok")
          => LET old == GetNodeIndexById(graph, last'.a)
                 new == GetNodeIndexById(graph', last'.a)
             IN /\ new # Absent
                /\ new \in Reachable(graph')
                /\ graph'.nodes[new].content_hash = last'.b
                /\ old \notin Reachable(graph')]_vars

\* C9: import_subgraph(other, r) returns a node whose merkle hash is the
\* merkle hash of r in other, for roots r with children too.
C9_ImportKeepsMerkleHash ==
    [][last'.op = "import_subgraph"
          => graph'.nodes[last'.ret].merkle_tree_hash
                 = other.nodes[last'.a].merkle_tree_hash]_vars

\* where an edge towards node n points once the call has made its copies
NewDestination(copies, n) ==
    IF \E pr \in copies : pr[1] = n
    THEN (CHOOSE pr \in copies : pr[1] = n)[2]
    ELSE n

\* C10: after an add_edge or update_content in change set cs, every node copy
\* the call made has a write entry for cs above that of the node it was
\* copied from (no entry being the lowest), and every edge of a copy has a
\* write entry for cs above that of the weight it derives from: the old
\* node's edge it re-creates or, for the added edge, the weight passed in.
C10_WriteClocksAdvance ==
    [][(last'.op \in {"add_edge", "update_content"} /\ last'.res = "Ok")
          => \A pr \in last'.copies :
                LET cs == last'.cs
                    old == pr[1]
                    new == pr[2]
                IN /\ EntryFor(graph'.nodes[new].vector_clock_write, cs)
                        > EntryFor(graph.nodes[old].vector_clock_write, cs)
                   /\ \A k \in DOMAIN graph'.out[new] :
                         LET e == graph'.out[new][k]
                         IN IF last'.op = "add_edge" /\ new = last'.ret /\ e.to = last'.b
                            THEN EntryFor(e.w.vector_clock_write, cs)
                                   > EntryFor(EdgeWeightNew(cs, e.w.kind).vector_clock_write, cs)
                            ELSE \E j \in DOMAIN graph.out[old] :
                                    /\ NewDestination(last'.copies, graph.out[old][j].to) = e.to
                                    /\ EntryFor(e.w.vector_clock_write, cs)
                                         > EntryFor(graph.out[old][j].w.vector_clock_write, cs)]_vars

\* an add_edge in a later change set that copied a parent with its edges
C10_Witness ==
    /\ last.op = "add_edge"
    /\ last.res = "Ok"
    /\ last.cs = 2
    /\ \E pr \in last.copies : pr[1] # last.a /\ Len(graph.out[pr[2]]) >= 2

(***************************************************************************)
(* Properties of the rebase.                                               *)
(***************************************************************************)
Detected == last.op = "detect_conflicts_and_updates"

RootMerkleTreeHash(g) == g.nodes[g.root].merkle_tree_hash

\* the result ([], []) with nothing examined below onto's root
NothingToDo(r, onto) ==
    /\ r.res = "Ok"
    /\ r.conflicts = <<>>
    /\ r.updates = <<>>
    /\ r.examined = <<onto.root>>

\* C11: detect_conflicts_and_updates(s, s) returns ([], []) for every
\* snapshot s, and whenever the roots of to_rebase and onto have equal
\* merkle hashes the result is ([], []) and no node below onto's root is
\* examined.
C11_EqualRootsNothingToDo ==
    /\ \A hash_order \in HashIterationOrders :
          /\ NothingToDo(DetectConflictsAndUpdates(graph, ToRebaseChangeSet,
                             graph, OntoChangeSet, hash_order), graph)
          /\ NothingToDo(DetectConflictsAndUpdates(other, ToRebaseChangeSet,
                             other, OntoChangeSet, hash_order), other)
    /\ (Detected /\ RootMerkleTreeHash(graph) = RootMerkleTreeHash(other))
          => NothingToDo(last, other)

\* a detection between two snapshots with equal root hashes that are not
\* the same snapshot, onto's root having children
C11_Witness ==
    /\ Detected
    /\ RootMerkleTreeHash(graph) = RootMerkleTreeHash(other)
    /\ ~SameSnapshot(graph, other)
    /\ other.out[other.root] # <<>>
    /\ NothingToDo(last, other)

\* the positions of the log
LogIndices == 1..Len(last.log)

\* every call since the clone was made on that side
OnlySide(side) == \A i \in LogIndices : last.log[i].side = side

\* the calls since the clone are successful add_node and add_edge calls
OnlyAdditions ==
    \A i \in LogIndices :
        last.log[i].op \in {"add_node", "add_edge"} /\ last.log[i].res = "Ok"

\* every id names one node among those root_index reaches
UniqueIds(g) ==
    \A a, b \in Reachable(g) : g.nodes[a].id = g.nodes[b].id => a = b

\* since the clone: the content node with id n was added, one edge of the
\* kind was added to it from the content node with id container, which has
\* no ordering node, and every other edge added leaves the new node; every
\* id names one node of g
AddedNodeUnder(g, container, n, kind) ==
    /\ OnlyAdditions
    /\ UniqueIds(g)
    /\ container # n
    /\ Cardinality({i \in LogIndices : last.log[i].op = "add_node"}) = 1
    /\ \E i \in LogIndices : last.log[i].op = "add_node" /\ last.log[i].a = n
    /\ Cardinality({i \in LogIndices : last.log[i].op = "add_edge"
                                       /\ last.log[i].b_id = n}) = 1
    /\ \A i \in LogIndices :
          last.log[i].op = "add_edge" =>
             \/ /\ last.log[i].b_id = n
                /\ last.log[i].a_id = container
                /\ last.log[i].kind = kind
             \/ /\ last.log[i].b_id # n
                /\ last.log[i].a_id = n
    /\ GetNodeIndexById(g, n) # Absent
    /\ g.nodes[GetNodeIndexById(g, n)].kind = "Content"
    /\ GetNodeIndexById(g, container) # Absent
    /\ g.nodes[GetNodeIndexById(g, container)].kind = "Content"
    /\ OrderingNodeIndexesForNodeIndex(g, GetNodeIndexById(g, container)) = <<>>

C13_ToRebaseAdditionsAreSilent ==
    (Detected /\ OnlySide("to_rebase") /\ OnlyAdditions)
    => /\ last.res = "Ok"
       /\ last.conflicts = <<>>
       /\ last.updates = <<>>

\* since the clone each side has made one call, a successful
\* update_content of the content node with that id, with different hashes
BothUpdatedContent(id) ==
    /\ Len(last.log) = 2
    /\ \A i \in LogIndices :
          /\ last.log[i].op = "update_content"
          /\ last.log[i].a = id
          /\ last.log[i].res = "Ok"
    /\ last.log[1].side # last.log[2].side
    /\ last.log[1].b # last.log[2].b
    /\ GetNodeIndexById(graph, id) # Absent
    /\ graph.nodes[GetNodeIndexById(graph, id)].kind = "Content"
    /\ graph.nodes[GetNodeIndexById(graph, id)].addr # "Root"

\* C14: to_rebase is a clone of onto and both sides have called
\* update_content on the same reachable content node with different
\* hashes, each in its own change set: the detection returns exactly one
\* conflict, NodeContent{to_rebase: the node's current index in to_rebase,
\* onto: its current index in onto}, and no update.
C14_ConcurrentContentIsOneConflict ==
    \A id \in 0..(nextId - 1) :
        (Detected /\ BothUpdatedContent(id))
        => /\ last.res = "Ok"
           /\ last.conflicts =
                 <<ConflictNodeContent(GetNodeIndexById(graph, id),
                                       GetNodeIndexById(other, id))>>
           /\ last.updates = <<>>

\* C15: the detection is deterministic: two runs on the same snapshots and
\* change sets return the same conflicts and the same updates, element for
\* element in the same order, also when a container has two or more edges
\* that only one side holds.
C15_DetectionIsDeterministic ==
    \A first \in HashIterationOrders, second \in HashIterationOrders :
        DetectConflictsAndUpdates(graph, ToRebaseChangeSet, other, OntoChangeSet,
                                  first)
        = DetectConflictsAndUpdates(graph, ToRebaseChangeSet, other, OntoChangeSet,
                                    second)


\* the content nodes other than the root that each side has updated since
\* the clone and whose content hashes now differ between the sides
ConcurrentlyModified ==
    {id \in 1..(nextId - 1) :
        \E i, j \in LogIndices :
            /\ last.log[i].op = "update_content" /\ last.log[i].side = "to_rebase"
            /\ last.log[j].op = "update_content" /\ last.log[j].side = "onto"
            /\ last.log[i].a = id /\ last.log[j].a = id
            /\ last.log[i].res = "Ok" /\ last.log[j].res = "Ok"
            /\ graph.nodes[GetNodeIndexById(graph, id)].kind = "Content"
            /\ graph.nodes[GetNodeIndexById(graph, id)].content_hash
                  # other.nodes[GetNodeIndexById(other, id)].content_hash}

\* every call since the clone is a successful update_content
OnlyContentUpdates ==
    \A i \in LogIndices :
        last.log[i].op = "update_content" /\ last.log[i].res = "Ok"

MixedContainersCompared ==
    \E k \in 1..Len(last.examined) :
        \E t \in Range(ToRebaseNodeIndexes(graph, other, last.examined[k])) :
            /\ graph.nodes[t].merkle_tree_hash
                 # other.nodes[last.examined[k]].merkle_tree_hash
            /\ (OrderingNodeIndexesForNodeIndex(graph, t) = <<>>)
                 # (OrderingNodeIndexesForNodeIndex(other, last.examined[k]) = <<>>)

\* C17: when a compared pair of an onto node and a to_rebase candidate with
\* differing merkle tree hashes has an ordering node on exactly one side, the
\* detection aborts with the error CannotCompareOrderedAndUnorderedContainers
\* and returns no conflicts and no updates.
C17_MixedContainersError ==
    (Detected /\ MixedContainersCompared)
    => /\ last.res = "CannotCompareOrderedAndUnorderedContainers"
       /\ last.conflicts = <<>>
       /\ last.updates = <<>>


\* no node root_index reaches has more than one Ordering edge to an
\* ordering node
AtMostOneOrderingChild(g) ==
    \A n \in Reachable(g) : Len(OrderingNodeIndexesForNodeIndex(g, n)) <= 1

\* C18: after any sequence of successful mutations no node reachable from
\* the root has more than one outgoing Ordering edge to an ordering node:
\* add_edge never produces a container with two ordering children.
C18_AtMostOneOrderingChild ==
    AtMostOneOrderingChild(graph) /\ AtMostOneOrderingChild(other)


\* C19: after new and after every later add_node, add_edge, update_content,
\* import_subgraph and cleanup call, successful or failed, root_index names
\* a node that is stored in the graph and whose content address is Root.
C19_RootIndexNamesRoot ==
    /\ ContainsNode(graph, graph.root)
    /\ graph.nodes[graph.root].addr = "Root"

\* a mutation that moved root_index to a copy of the root
C19_Witness ==
    /\ last.op \in {"add_edge", "update_content", "import_subgraph"}
    /\ last.res = "Ok"
    /\ \E pr \in last.copies : pr[2] = graph.root /\ pr[1] # graph.root
    /\ ContainsNode(graph, graph.root)
    /\ graph.nodes[graph.root].addr = "Root"


(***************************************************************************)
(* Properties of the workflow tree.                                        *)
(***************************************************************************)
\* a Parallel tree with commands of its own and nested workflows, none of
\* them Exceptional, whose commands all succeeded
MixedParallelSucceeded ==
    /\ last.op = "execute"
    /\ last.tree.kind = "Parallel"
    /\ CommandSteps(last.tree.steps) # <<>>
    /\ WorkflowSteps(last.tree.steps) # <<>>
    /\ "Exceptional" \notin TreeKinds(last.tree)
    /\ \A id \in TreeCommands(last.tree) : last.outcome[id].res = "Ok"

\* C20: for a Parallel workflow that mixes direct commands with nested
\* workflows, when every command succeeds, execute returns a map in which
\* every command of the tree, direct and nested, holds the value its own
\* execution produced, for every completion order of the tasks; no value is
\* left at or reset to (None, None).
C20_ParallelKeepsEveryValue ==
    MixedParallelSucceeded
    => /\ last.res = "Ok"
       /\ \A id \in TreeCommands(last.tree) :
             /\ id \in DOMAIN last.map
             /\ last.map[id].value = last.outcome[id].value


\* the workflows the steps of the view of w name
ViewWorkflows(views, w) ==
    {views[w].steps[k].workflow :
        k \in {i \in 1..Len(views[w].steps) : views[w].steps[i].type = "Workflow"}}

\* the workflows the definition of name holds at any depth, name included
RECURSIVE WorkflowsBelow(_, _, _)
WorkflowsBelow(views, frontier, seen) ==
    LET nxt == UNION {ViewWorkflows(views, w) : w \in frontier} \ seen
    IN IF nxt = {} THEN seen ELSE WorkflowsBelow(views, nxt, seen \cup nxt)

\* the definition of name holds a Workflow step that names a workflow on
\* its own ancestor chain, and every function it needs exists
NamesAnAncestor(views, name) ==
    LET below == WorkflowsBelow(views, {name}, {name})
    IN /\ \E w \in below :
             \E v \in ViewWorkflows(views, w) : w \in WorkflowsBelow(views, {v}, {v})
       /\ \A w \in below :
             /\ views[w] # NoView
             /\ \A k \in 1..Len(views[w].steps) :
                   views[w].steps[k].type = "Command"
                   => views[w].steps[k].command \in KnownCommands

\* C21: resolving a workflow whose definition holds, at any depth, a
\* Workflow step naming a workflow already on its own ancestor chain ends
\* with the error RecursiveWorkflow returned to the caller; the resolution
\* never panics.
C21_RecursionIsAnError ==
    (last.op = "resolve" /\ NamesAnAncestor(last.views, last.name))
    => last.res = "RecursiveWorkflow"


\* C22: during execute of a Parallel workflow no spawned command task or
\* nested workflow task is ever cancelled or aborted before it has run to
\* completion, also when a sibling task returns an error.
C22_NoTaskIsAborted ==
    \A k \in DOMAIN last.tasks : last.tasks[k].status # "aborted"


(***************************************************************************)
(* Properties of the veritech client.                                      *)
(***************************************************************************)
\* the inner subscription yielded a message with the final message header
\* to poll k
FinalMessageAt(k) ==
    /\ last.yielded[k].kind = "Message"
    /\ last.yielded[k].msg.headers.present
    /\ FinalMessageHeaderKey \in last.yielded[k].msg.headers.keys

\* C23: the reply stream ends normally exactly when a message carrying the
\* final message header arrives, and that message is not delivered as an
\* item; when the inner subscription closes before such a message was seen
\* the stream yields the error UnexpectedNatsSubscriptionClosed instead of
\* ending normally.
C23_StreamEndsOnFinalMessage ==
    \A k \in 1..Len(last.returned) :
        /\ (last.returned[k] = PollReadyNone) <=> FinalMessageAt(k)
        /\ (/\ last.yielded[k].kind = "Closed"
            /\ \A j \in 1..(k - 1) : ~FinalMessageAt(j))
           => last.returned[k] = PollReadyErr("UnexpectedNatsSubscriptionClosed")

\* an item was delivered, then a final message with a payload and another
\* header ended the stream
C23_Witness ==
    \E k \in 2..Len(last.returned) :
        /\ last.returned[k - 1].item = "Ok"
        /\ FinalMessageAt(k)
        /\ last.yielded[k].msg.data # 0
        /\ Cardinality(last.yielded[k].msg.headers.keys) = 2
        /\ last.returned[k] = PollReadyNone


\* how many times a sequence holds an element
Occurrences(s, x) == Cardinality({k \in 1..Len(s) : s[k] = x})

\* onto's node n and to_rebase's node t differ in their merkle tree hashes
\* and in their content hashes
MerkleAndContentDiffer(n, t) ==
    /\ other.nodes[n].merkle_tree_hash # graph.nodes[t].merkle_tree_hash
    /\ other.nodes[n].content_hash # graph.nodes[t].content_hash

\* C24: for every onto node and every to_rebase candidate whose merkle
\* hashes and content hashes both differ exactly one of three outcomes
\* occurs: nothing is emitted when to_rebase's write clock is newer, one
\* ReplaceSubgraph{new: onto node, old: candidate} when onto's write clock
\* is newer, one NodeContent conflict when neither is newer; a NodeContent
\* conflict is never emitted for a pair whose content hashes are equal.
C24_ContentComparisonOutcome ==
    (Detected /\ last.res = "Ok")
    => \A n \in Range(last.examined) :
          \A t \in Range(ToRebaseNodeIndexes(graph, other, n)) :
             LET onto_write == other.nodes[n].vector_clock_write
                 to_rebase_write == graph.nodes[t].vector_clock_write
                 replaced == Occurrences(last.updates, UpdateReplaceSubgraph(n, t))
                 conflicting == Occurrences(last.conflicts, ConflictNodeContent(t, n))
             IN /\ MerkleAndContentDiffer(n, t)
                   => IF IsNewerThan(to_rebase_write, onto_write)
                      THEN replaced = 0 /\ conflicting = 0
                      ELSE IF IsNewerThan(onto_write, to_rebase_write)
                      THEN replaced = 1 /\ conflicting = 0
                      ELSE replaced = 0 /\ conflicting = 1
                /\ other.nodes[n].content_hash = graph.nodes[t].content_hash
                   => conflicting = 0


\* the pairs <<t, n>> of a to_rebase container t and the onto container n
\* it is a candidate of, neither with an ordering node
UnorderedContainerPairs ==
    {<<t, n>> \in NodeIndices(graph) \X NodeIndices(other) :
        /\ other.nodes[n].kind = "Content"
        /\ t \in Range(ToRebaseNodeIndexes(graph, other, n))
        /\ OrderingNodeIndexesForNodeIndex(other, n) = <<>>
        /\ OrderingNodeIndexesForNodeIndex(graph, t) = <<>>}

\* the edges of container c of g whose kind and target lineage no edge of
\* container d of h has
EdgesOnlyUnder(g, c, h, d) ==
    {e \in Range(g.out[c]) :
        \A f \in Range(h.out[d]) :
            ~(f.w.kind = e.w.kind
              /\ h.nodes[f.to].lineage_id = g.nodes[e.to].lineage_id)}

\* e is the only edge of container c of g with its kind and target lineage
OnlyEdgeOfItsKey(g, c, e) ==
    \A f \in Range(g.out[c]) :
        (f.w.kind = e.w.kind /\ g.nodes[f.to].lineage_id = g.nodes[e.to].lineage_id)
        => f = e

\* to_rebase's root's recently seen entry for onto's change set
RootSeenAsOfOnto ==
    EntryFor(graph.nodes[graph.root].vector_clock_recently_seen, OntoChangeSet)

AppliedUnordered ==
    last.op = "find_unordered_container_membership_conflicts_and_updates"

AppliedOrdered ==
    last.op = "find_ordered_container_membership_conflicts_and_updates"

\* C26: in the unordered reconciliation, for every edge only under the onto
\* container: NewEdge is emitted when the edge's first seen entry for
\* onto's change set is greater than the to_rebase root's recently seen
\* entry for onto's change set; otherwise, also when that first seen entry
\* exists but is not greater, RemoveModifiedItem{container, removed_item}
\* is emitted when the target's write clock has an entry greater than the
\* root's recently seen entry; otherwise nothing is emitted.
C26_OnlyOntoEdges ==
    (AppliedUnordered /\ RootSeenAsOfOnto # Absent)
    => \A e \in EdgesOnlyUnder(other, ContainerIndex, graph, ContainerIndex) :
          LET onto_first_seen ==
                  EntryFor(EdgeVectorClockFirstSeen(e.w), OntoChangeSet)
              new == Occurrences(last.updates,
                                 UpdateNewEdge(ContainerIndex, e.to, e.w))
              modified == Occurrences(last.conflicts,
                              ConflictRemoveModifiedItem(ContainerIndex, e.to))
          IN IF onto_first_seen # Absent /\ onto_first_seen > RootSeenAsOfOnto
             THEN new = 1 /\ modified = 0
             ELSE IF HasEntriesNewerThan(other.nodes[e.to].vector_clock_write,
                                         RootSeenAsOfOnto)
             THEN new = 0 /\ modified = 1
             ELSE new = 0 /\ modified = 0


\* the ordering nodes the ordered comparison is applied to
OntoOrdering == other.nodes[OrderingIndex]
ToRebaseOrdering == graph.nodes[OrderingIndex]

\* the edges of container c of g to an item whose id is in ids
EdgesToItems(g, c, ids) == {e \in Range(g.out[c]) : g.nodes[e.to].id \in ids}

\* C27: in the ordered reconciliation, when the orders differ and onto's
\* ordering write clock is newer than to_rebase's, the output holds no
\* conflict, a NewEdge for every onto container edge to an item whose id is
\* in onto's order but not in to_rebase's, a RemoveEdge for every to_rebase
\* container edge to an item whose id is in to_rebase's order but not in
\* onto's, and exactly one ReplaceSubgraph{new: onto ordering node, old:
\* to_rebase ordering node}, and nothing else; when the orders are
\* identical or to_rebase's ordering write clock is newer, nothing is
\* emitted.
C27_OntoOrderingIsNewer ==
    AppliedOrdered
    => LET new_items == Range(OntoOrdering.order) \ Range(ToRebaseOrdering.order)
           removed_items == Range(ToRebaseOrdering.order) \ Range(OntoOrdering.order)
           new_edges == EdgesToItems(other, ContainerIndex, new_items)
           removed_edges == EdgesToItems(graph, ContainerIndex, removed_items)
       IN IF OntoOrdering.order = ToRebaseOrdering.order
             \/ IsNewerThan(ToRebaseOrdering.vector_clock_write,
                            OntoOrdering.vector_clock_write)
          THEN last.res = "Ok" /\ last.conflicts = <<>> /\ last.updates = <<>>
          ELSE IsNewerThan(OntoOrdering.vector_clock_write,
                           ToRebaseOrdering.vector_clock_write)
               => /\ last.res = "Ok"
                  /\ last.conflicts = <<>>
                  /\ \A e \in new_edges :
                        Occurrences(last.updates,
                            UpdateNewEdge(ContainerIndex, e.to, e.w)) = 1
                  /\ \A e \in removed_edges :
                        Occurrences(last.updates,
                            UpdateRemoveEdge(ContainerIndex, e.to)) = 1
                  /\ Occurrences(last.updates,
                         UpdateReplaceSubgraph(OrderingIndex, OrderingIndex)) = 1
                  /\ Len(last.updates)
                        = Cardinality(new_edges) + Cardinality(removed_edges) + 1

\* onto's newer order has an item to_rebase's lacks and lacks one that
\* to_rebase's has: a NewEdge, a RemoveEdge and the ReplaceSubgraph
C27_Witness ==
    /\ AppliedOrdered
    /\ IsNewerThan(OntoOrdering.vector_clock_write,
                   ToRebaseOrdering.vector_clock_write)
    /\ Range(OntoOrdering.order) \ Range(ToRebaseOrdering.order) # {}
    /\ Range(ToRebaseOrdering.order) \ Range(OntoOrdering.order) # {}
    /\ Len(last.updates) = 3
    /\ last.updates[3] = UpdateReplaceSubgraph(OrderingIndex, OrderingIndex)


\* the orders differ and neither ordering write clock is newer
ConcurrentOrderings ==
    /\ OntoOrdering.order # ToRebaseOrdering.order
    /\ ~IsNewerThan(OntoOrdering.vector_clock_write,
                    ToRebaseOrdering.vector_clock_write)
    /\ ~IsNewerThan(ToRebaseOrdering.vector_clock_write,
                    OntoOrdering.vector_clock_write)

\* C28: in the ordered reconciliation with concurrent ordering writes the
\* items only one side holds are classified by the tests of the unordered
\* reconciliation: the result holds the conflicts and the updates that the
\* unordered reconciliation of the two containers yields; an item only in
\* to_rebase that onto has seen yields ModifyRemovedItem only if its write
\* entry for to_rebase's change set is greater than the to_rebase root's
\* recently seen entry for onto's change set, and RemoveEdge otherwise.
C28_OrderedClassifiesAsUnordered ==
    (AppliedOrdered /\ ConcurrentOrderings)
    => /\ last.res = "Ok"
       /\ \A hash_order \in HashIterationOrders :
             LET r == FindUnorderedContainerMembershipConflictsAndUpdates(
                          graph, ToRebaseChangeSet, ContainerIndex,
                          other, OntoChangeSet, ContainerIndex, hash_order)
             IN /\ Range(last.conflicts) = Range(r.conflicts)
                /\ Range(last.updates) = Range(r.updates)
       /\ \A e \in EdgesOnlyUnder(graph, ContainerIndex, other, ContainerIndex) :
             (/\ EntryFor(EdgeVectorClockFirstSeen(e.w), OntoChangeSet) # Absent
              /\ ConflictModifyRemovedItem(e.to) \in Range(last.conflicts))
             => EntryFor(graph.nodes[e.to].vector_clock_write, ToRebaseChangeSet)
                   > RootSeenAsOfOnto


\* the two ordering nodes list the same ids in different orders
SameItemsReordered ==
    /\ OntoOrdering.kind = "Ordering"
    /\ ToRebaseOrdering.kind = "Ordering"
    /\ Range(OntoOrdering.order) = Range(ToRebaseOrdering.order)
    /\ OntoOrdering.order # ToRebaseOrdering.order

\* C29: when to_rebase and onto each hold an ordered container of the same
\* lineage whose ordering nodes list the same ids in different orders and
\* neither ordering write clock is newer than the other,
\* detect_conflicts_and_updates reports a ChildOrder conflict; the
\* divergence is never returned as ([], []).
C29_ReorderingIsAChildOrderConflict ==
    (Detected /\ SameItemsReordered /\ ConcurrentOrderings)
    => /\ last.res = "Ok"
       /\ \E k \in 1..Len(last.conflicts) : last.conflicts[k].type = "ChildOrder"
       /\ ~(last.conflicts = <<>> /\ last.updates = <<>>)


\* the arguments of the detection of the state, with a hash order
DetectionOf(hash_order) ==
    [to_rebase |-> graph, to_rebase_change_set |-> ToRebaseChangeSet,
     onto |-> other, onto_change_set |-> OntoChangeSet, hash_order |-> hash_order]

\* every candidate of onto's node n has n's merkle tree hash
EveryCandidateMatches(n) ==
    \A t \in Range(ToRebaseNodeIndexes(graph, other, n)) :
        graph.nodes[t].merkle_tree_hash = other.nodes[n].merkle_tree_hash

\* C30: on the Discover event of an onto node the traversal returns Prune
\* if and only if every to_rebase candidate of the node has the node's
\* merkle tree hash, also when there is no candidate; otherwise it
\* continues into the node's children, and every candidate of the node is
\* compared before the decision is made.
C30_PruneIffEveryCandidateMatches ==
    Detected
    => \A n \in Range(last.examined), hash_order \in HashIterationOrders :
          LET r == ProcessDfsEvent(DetectionOf(hash_order), n)
          IN r.res = "Ok"
             => /\ (r.control = "Prune") <=> EveryCandidateMatches(n)
                /\ ~EveryCandidateMatches(n) => r.control = "Continue"
                /\ Range(r.compared) = Range(ToRebaseNodeIndexes(graph, other, n))

(***************************************************************************)
(* Properties of the nodes a detection refers to and of copy-on-write.     *)
(***************************************************************************)
\* the to_rebase-side node indexes the result of the detection names
ToRebaseSideReferences ==
    {last.conflicts[i].to_rebase : i \in 1..Len(last.conflicts)}
    \cup {last.updates[i].source :
             i \in {j \in 1..Len(last.updates) :
                       last.updates[j].type \in
                           {"ReplaceSubgraph", "NewEdge", "RemoveEdge"}}}

\* C31: every to_rebase-side node the output of detect_conflicts_and_updates
\* refers to (NodeContent.to_rebase, ReplaceSubgraph.old, NewEdge.source,
\* ModifyRemovedItem, RemoveModifiedItem.container, the source of every
\* RemoveEdge) is reachable from to_rebase's root_index, also when to_rebase
\* still holds stale copies cleanup has not removed.
C31_ReferencedNodesAreReachable ==
    (Detected /\ last.res = "Ok")
        => ToRebaseSideReferences \subseteq Reachable(graph)

\* the outgoing edges of a stored node, as a set of (target, weight) pairs
OutgoingEdges(g, n) == {g.out[n][k] : k \in 1..Len(g.out[n])}

\* the step is a successful call of one of the operations
SuccessfulCall(ops) ==
    /\ calls' = calls + 1
    /\ last'.op \in ops
    /\ last'.res = "Ok"

\* C32: add_edge and update_content are copy-on-write for everything that
\* existed before the call: after a successful call every node index stored
\* before it has the weight and the set of outgoing edges (targets and
\* weights) it had before, the old version of the source node included when
\* an edge from it to the same target already existed.
C32_MutationIsCopyOnWrite ==
    [][SuccessfulCall({"add_edge", "update_content"})
          => \A n \in NodeIndices(graph) :
                /\ graph'.nodes[n] = graph.nodes[n]
                /\ OutgoingEdges(graph', n) = OutgoingEdges(graph, n)]_vars

\* the new copy new_from has an edge to d or to the copy the call made of d
PointsToOrToCopy(g, copies, new_from, d) ==
    \/ d \in Neighbors(g, new_from)
    \/ \E c \in copies : c[1] = d /\ c[2] \in Neighbors(g, new_from)

\* C33: after a successful add_edge(cs, from, w, to) the new copy of from has
\* an outgoing edge to every node the original from pointed to (or to that
\* node's new copy) and the edge to `to`, whether or not from was reachable
\* from root_index when the call was made.
C33_CopyKeepsOutgoingEdges ==
    [][SuccessfulCall({"add_edge"})
          => /\ last'.b \in Neighbors(graph', last'.ret)
             /\ \A d \in Neighbors(graph, last'.a) :
                   PointsToOrToCopy(graph', last'.copies, last'.ret, d)]_vars

\* the nodes root_index reaches that carry the id
ReachableWithId(g, id) == {n \in Reachable(g) : g.nodes[n].id = id}

\* C34: add_node being called with fresh ids only, after any sequence of
\* add_node, add_edge and update_content calls at most one node reachable
\* from root_index carries any given id, so that get_node_index_by_id has one
\* node to return whatever stale copies are stored.
C34_OneReachableNodePerId ==
    \A id \in 0..(nextId - 1) :
        /\ Cardinality(ReachableWithId(graph, id)) <= 1
        /\ ReachableWithId(graph, id) \subseteq {GetNodeIndexById(graph, id)}

\* every entry the clock vc has is an entry of the clock wc, unchanged
EntriesKept(vc, wc) == \A c \in ChangeSets : vc[c] # Absent => wc[c] = vc[c]

\* the edges replace_references re-created in the step: the old node, the
\* old edge, the copy and the destination the edge has under the copy
RecreatedEdges ==
    {rec \in {[old |-> c[1], new |-> c[2], edge |-> e,
               to |-> NewDestination(last'.copies, e.to)] :
                  c \in last'.copies, e \in UNION {OutgoingEdges(graph', o) :
                                                      o \in NodeIndices(graph)}} :
        /\ rec.edge \in OutgoingEdges(graph', rec.old)
        /\ HasEdge(graph', rec.new, rec.to)
        /\ ~(last'.op = "add_edge" /\ rec.new = last'.ret /\ rec.to = last'.b)}

\* C35: an edge's first_seen clock is set once per change set: every edge
\* created through add_edge in change set cs has a first_seen entry for cs,
\* and re-creating an edge on a copied ancestor during replace_references
\* leaves every first_seen entry the edge had unchanged, while the write
\* clock advances.
C35_EdgeFirstSeenSetOnce ==
    [][SuccessfulCall({"add_edge", "update_content"})
          => /\ last'.op = "add_edge"
                   => EntryFor(EdgeVectorClockFirstSeen(
                          EdgeWeightOf(graph', last'.ret, last'.b)), last'.cs) # Absent
             /\ \A rec \in RecreatedEdges :
                   LET w == EdgeWeightOf(graph', rec.new, rec.to)
                   IN /\ EntriesKept(EdgeVectorClockFirstSeen(rec.edge.w),
                                     EdgeVectorClockFirstSeen(w))
                      /\ EntryFor(w.vector_clock_write, last'.cs)
                            > EntryFor(rec.edge.w.vector_clock_write, last'.cs)]_vars

(***************************************************************************)
(* Properties of the workflow steps.                                       *)
(***************************************************************************)
\* the step at path p comes before the step at path q in list order: they
\* part at some workflow, p in an earlier step of it than q
EarlierStep(p, q) ==
    \E d \in 1..Len(p) :
        /\ d <= Len(q)
        /\ SubSeq(p, 1, d - 1) = SubSeq(q, 1, d - 1)
        /\ p[d] < q[d]

\* the positions of the events of a kind
EventsOf(ev) == {i \in 1..Len(last.events) : last.events[i].ev = ev}

\* C36: in a Conditional workflow execute runs the steps strictly in list
\* order: a step (command or nested workflow) does not start until the step
\* before it, the whole execution of a nested workflow included, has
\* finished; when a step fails no later step is started and execute returns
\* that error.
C36_ConditionalStepsRunInOrder ==
    /\ \A q \in EventsOf("start") :
          /\ \A p \in EventsOf("start") :
                EarlierStep(last.events[p].path, last.events[q].path)
                   => /\ p < q
                      /\ \E e \in EventsOf("end") :
                            /\ p < e /\ e < q
                            /\ last.events[e].path = last.events[p].path
                            /\ last.events[e].res = "Ok"
          /\ \A d \in 1..Len(last.events[q].path) :
                last.events[q].path[d] > 1
                   => \E p \in EventsOf("start") :
                         last.events[p].path =
                            Append(SubSeq(last.events[q].path, 1, d - 1),
                                   last.events[q].path[d] - 1)
    /\ \A e \in EventsOf("end") :
          last.events[e].res # "Ok"
             => e = Len(last.events) /\ last.res = last.events[e].res

\* a command of a nested workflow has failed after an earlier step ran, and
\* execute has returned the error with a later step never started
C36_Witness ==
    /\ last.op = "step_returns"
    /\ last.res = "Err"
    /\ Len(last.frames) = 2
    /\ last.frames[1].k > 1
    /\ last.frames[1].k < Len(last.frames[1].steps)
    /\ Len(last.events) >= 4

\* C37: within run neither execute nor postprocess fails with
\* CommandNotPrepared: the map and the receiver map prepare returns both have
\* a key for the binding of every command of the tree, nested workflows
\* included, and the two keep the same keys until postprocess has consumed
\* them.
C37_EveryCommandIsPrepared ==
    /\ last.res # "CommandNotPrepared"
    /\ last.op \in {"prepare", "execute"} /\ last.res = "Ok"
          => /\ TreeCommands(last.tree) \subseteq DOMAIN last.map
             /\ DOMAIN last.map = last.rxs
    /\ last.op = "postprocess"
          => /\ last.rxs = {}
             /\ {pr[1] : pr \in last.processed} = TreeCommands(last.tree)

\* a run over a tree with nested workflows has been post-processed
C37_Witness ==
    /\ last.op = "postprocess"
    /\ last.res = "Ok"
    /\ \E k \in 1..Len(last.tree.steps) : last.tree.steps[k].type = "Workflow"
    /\ Cardinality({pr[1] : pr \in last.processed}) > 2

\* the number of Command leaves of the tree that hold the binding
RECURSIVE LeafCount(_, _)
LeafCount(tree, b) ==
    LET Count[k \in 0..Len(tree.steps)] ==
           IF k = 0 THEN 0
           ELSE Count[k - 1]
                + (IF tree.steps[k].type = "Command"
                   THEN (IF tree.steps[k].func_binding = b THEN 1 ELSE 0)
                   ELSE LeafCount(tree.steps[k], b))
    IN Count[Len(tree.steps)]

\* C38: in a successful run every Command leaf of the tree is executed once
\* and post-processed once, with the record and the receiver prepare made
\* for that leaf, also when one func binding occurs at two places of the
\* tree: the post-processings of a binding are as many as its leaves.
C38_EveryLeafIsPostProcessedOnce ==
    (last.op = "postprocess" /\ last.res = "Ok")
        => \A b \in FuncBindingIds :
              Cardinality({pr \in last.processed : pr[1] = b})
                 = LeafCount(last.tree, b)


\* C39: execute_request has subscribed to the result mailbox and to the
\* output mailbox and has spawned the output forwarder by the time the
\* request reaches the executor, so the executor never publishes a result or
\* an output to a mailbox that has not been subscribed to.
C39_SubscribedBeforePublish ==
    /\ last.executor.requested =>
          /\ last.result.status # "none"
          /\ last.output.status # "none"
          /\ last.task # "none"
    /\ last.early = {}
C39_Witness ==
    /\ last.executor.requested
    /\ last.executor.result
    /\ last.executor.outputs > 0
    /\ last.res = "Ok"
    /\ last.early = {}
    /\ last.task # "none"


\* the forwarder has been handed the final message of the output
FinalDelivered == last.task = "unsubscribe"
\* the output subscription closed under the running forwarder with no final
\* message left for it
ClosedWithoutFinal ==
    /\ last.task \in {"next", "send", "warn"}
    /\ last.output.status = "closed"
    /\ \A i \in 1..Len(last.output.queue) :
          ~HasFinalMessageHeader(last.output.queue[i])
\* forward_output_task has returned and dropped its sender
ForwarderReturned == last.task = "done" /\ last.ends.tx_dropped
\* C40: once the output subscription has delivered the final message or has
\* closed without one, forward_output_task eventually returns and drops its
\* sender, and a caller that keeps the receiver then eventually observes the
\* end of the channel.
C40_ForwarderTerminates ==
    /\ (FinalDelivered \/ ClosedWithoutFinal) ~> ForwarderReturned
    /\ (ForwarderReturned /\ ~last.ends.rx_dropped)
          ~> (last.ends.eoc \/ last.ends.rx_dropped)

====
